---- MODULE Spec2Model ----
(***************************************************************************)
(* Model of the affective/behavioural middleware: the feature extractor    *)
(* and response normalizer (engines/linguistic.py), the mood engine        *)
(* (engines/emotional.py), the behaviour engine (engines/behavioral.py)    *)
(* and the turn orchestrator (main.py).                                    *)
(*                                                                         *)
(* Numbers: every Python float of the engines is a fixed-point integer in  *)
(* thousandths (0.35 is 350).  Products that leave the grid (energy * 0.8, *)
(* energy * 1.2) are truncated to the grid.                                *)
(* Text: a string is a sequence of one-character strings, so substring     *)
(* tests, split(), lower() and isupper() are computed, not assumed.        *)
(* Time: datetime.now() is the ordinal of the call that reads it.          *)
(* The backends (llm_providers) and the persistent store (engines/memory)  *)
(* are modelled by what they hand to the orchestrator.                     *)
(***************************************************************************)
EXTENDS Integers, Sequences, FiniteSets, TLC

VARIABLES
  current_mood,        \* EmotionalEngine.current_mood
  mood_history,        \* EmotionalEngine.mood_history
  engagement_trend,    \* EmotionalEngine.engagement_trend
  mood_updates,        \* number of update_mood_from_input calls so far (clock of the mood entries)
  last_parsed,         \* the parsed message of the last update_mood_from_input call
  initiative_history,  \* BehavioralEngine.initiative_history
  behavioral_params,   \* BehavioralEngine.behavioral_params
  outcome_calls,       \* number of learn_from_outcome calls so far (clock of the initiative records)
  messages_on_topic,   \* BehavioralEngine.messages_on_topic
  current_topic,       \* BehavioralEngine.current_topic
  topic_performance,   \* BehavioralEngine.topic_performance: topic name -> performance record
  topic_changes,       \* number of update_topic_tracking calls that started a topic
  behavior_context,    \* the snapshot the last analyze_conversation_state call returned
  initiative_analysis, \* what _analyze_initiative_needs returned inside that call
  processed_llm_response,   \* main.py: the backend reply handed to process_llm_response
  final_processed_response, \* main.py: what process_llm_response did with it (object returned, or exception)
  chat_log,            \* MemoryManager: the rows of the Chat_Log sheet (role and words of the content)
  llm_context,         \* main.py: the context the last turn assembled for the backend
  log_entry,           \* main.py: the entry the last _log_pure_interaction call built
  raw_provider_call,   \* main.py line 167: what the raw comparison call of the last turn did
  current_raw_debug,   \* main.py: the debug record of the last raw comparison call
  store,               \* MemoryManager: the workbook on disk (DNA, Current_State, Experience sheets)
  dna_parameters,      \* MemoryManager.dna_parameters
  experiential_memory, \* MemoryManager.experiential_memory
  llm_provider,        \* main.py line 19: the class of the provider the factory returned
  provider_call,       \* llm_providers: the last generate_response call and what came of it
  current_state,       \* MemoryManager.current_state
  turn_outcome,        \* what _process_pure_data_message did last (returned a text, or raised)
                       \* and the calls it made, in order
  returned,            \* the value the last query method of an engine returned to its caller
  engagement_ulps,     \* by how many units in the last place the double stored in engagement_level
                       \* lies above the double of its decimal value (followed by SpecBlend)
  last_op              \* the operation that produced the current state

moodVars == << current_mood, mood_history, engagement_trend, mood_updates, last_parsed >>

topicVars == << current_topic, topic_performance, topic_changes >>

analysisVars == << behavior_context, initiative_analysis >>

behaviorVars ==
  << initiative_history, behavioral_params, outcome_calls, messages_on_topic, topicVars, analysisVars >>

normalizerVars == << processed_llm_response, final_processed_response >>

memoryVars == << store, dna_parameters, experiential_memory >>

providerVars == << llm_provider, provider_call >>

turnVars ==
  << chat_log, llm_context, log_entry, raw_provider_call, current_raw_debug, current_state,
     turn_outcome, returned, engagement_ulps,
     memoryVars, providerVars >>

vars == << moodVars, behaviorVars, normalizerVars, turnVars, last_op >>

----
\* Helpers standing for Python built-ins.

Min2(a, b) == IF a < b THEN a ELSE b

Max2(a, b) == IF a > b THEN a ELSE b

\* s[-n:] of a Python list
LastN(s, n) == IF Len(s) <= n THEN s ELSE SubSeq(s, Len(s) - n + 1, Len(s))

\* `sub in text` for Python strings
Contains(sub, text) ==
  \E i \in 0..(Len(text) - Len(sub)) :
     \A k \in 1..Len(sub) : text[i + k] = sub[k]

\* True iff some element of the Python list `list` is a substring of text
AnyContained(list, text) == \E i \in 1..Len(list) : Contains(list[i], text)

\* `x in list` for a Python list of strings
InList(x, list) == \E i \in 1..Len(list) : list[i] = x

UpperChars ==
  {"A", "B", "C", "D", "E", "F", "G", "H", "I", "J", "K", "L", "M", "N", "O", "P", "Q", "R", "S", "T", "U", "V", "W", "X", "Y", "Z"}

LowerOf ==
  [c \in UpperChars |->
     CASE c = "A" -> "a"
       [] c = "B" -> "b"
       [] c = "C" -> "c"
       [] c = "D" -> "d"
       [] c = "E" -> "e"
       [] c = "F" -> "f"
       [] c = "G" -> "g"
       [] c = "H" -> "h"
       [] c = "I" -> "i"
       [] c = "J" -> "j"
       [] c = "K" -> "k"
       [] c = "L" -> "l"
       [] c = "M" -> "m"
       [] c = "N" -> "n"
       [] c = "O" -> "o"
       [] c = "P" -> "p"
       [] c = "Q" -> "q"
       [] c = "R" -> "r"
       [] c = "S" -> "s"
       [] c = "T" -> "t"
       [] c = "U" -> "u"
       [] c = "V" -> "v"
       [] c = "W" -> "w"
       [] c = "X" -> "x"
       [] c = "Y" -> "y"
       [] c = "Z" -> "z"]

\* str.lower()
Lower(text) == [i \in 1..Len(text) |-> IF text[i] \in UpperChars THEN LowerOf[text[i]] ELSE text[i]]

\* len(text.split()): the number of maximal runs of non-blank characters
WordCount(text) ==
  Cardinality({i \in 1..Len(text) : text[i] # " " /\ (i = 1 \/ text[i - 1] = " ")})

\* text.count(c)
CountChar(text, c) == Cardinality({i \in 1..Len(text) : text[i] = c})

----
\* engines/linguistic.py : the feature extractor

emotional_indicators ==
  << <<"l","o","v","e">>,
     <<"h","a","t","e">>,
     <<"a","m","a","z","i","n","g">>,
     <<"t","e","r","r","i","b","l","e">>,
     <<"e","x","c","i","t","e","d">>,
     <<"u","p","s","e","t">>,
     <<"f","r","u","s","t","r","a","t","e","d">>,
     <<"h","a","p","p","y">>,
     <<"s","a","d">> >>

personal_indicators ==
  << <<"i"," ","f","e","e","l">>,
     <<"i"," ","t","h","i","n","k">>,
     <<"m","y">>,
     <<"m","e">>,
     <<"p","e","r","s","o","n","a","l","l","y">> >>

\* The user messages the model feeds to the system.
UserMessages ==
  { <<"I"," ","a","m"," ","s","o"," ","u","p","s","e","t">>,
    <<"f","u","r","i","o","u","s">>,
    <<"I"," ","f","e","e","l"," ","s","a","d">>,
    <<"W","O","W"," ","t","h","i","s"," ","i","s"," ","A","M","A","Z","I","N","G","!","!","!">>,
    <<"t","h","a","t"," ","i","s"," ","i","n","c","r","e","d","i","b","l","e">>,
    <<"w","h","a","t","e","v","e","r",","," ","t","h","i","s"," ","i","s"," ","b","o","r","i","n","g">>,
    <<"m","e","h">>,
    <<"a","m","a","z","i","n","g">>,
    <<"I"," ","a","m"," ","c","o","n","f","u","s","e","d">>,
    <<"I"," ","t","h","i","n","k"," ","s","o">>,
    <<"s","o"," ","c","a","l","m"," ","a","n","d"," ","q","u","i","e","t">>,
    <<"o","k">>,
    <<"s","o","u","n","d","s"," ","g","o","o","d"," ","t","o"," ","m","e">>,
    <<"h","o","w"," ","a","r","e"," ","y","o","u"," ","t","o","d","a","y","?">>,
    <<"a"," ","b"," ","c"," ","d"," ","e"," ","f"," ","g"," ","h"," ","i"," ","j"," ","k"," ","l"," ","m"," ","n"," ","o"," ","p","?">>,
    <<"o","n","e"," ","t","w","o"," ","t","h","r","e","e"," ","f","o","u","r"," ","f","i","v","e"," ","s","i","x"," ","s","e","v","e","n"," ","e","i","g","h","t"," ","n","i","n","e">> }

\* Lines 21-56: engagement_score before the clamp of line 58
EngagementScoreOf(message) ==
  LET word_count        == WordCount(message)
      has_question      == CountChar(message, "?") > 0
      exclamation_count == CountChar(message, "!")
      upper_count       == Cardinality({i \in 1..Len(message) : message[i] \in UpperChars})
      \* uppercase_ratio > 0.3, the ratio being upper_count / max(1, len(message))
      shouting          == upper_count * 10 > 3 * Max2(1, Len(message))
      message_lower     == Lower(message)
      length_part       == IF word_count > 15 THEN 250
                           ELSE IF word_count > 8 THEN 150
                           ELSE IF word_count < 2 THEN -400
                           ELSE IF word_count < 4 THEN -200
                           ELSE 0
      question_part     == IF has_question THEN 200 ELSE 0
      exclamation_part  == (IF exclamation_count > 0 THEN 150 ELSE 0)
                           + (IF exclamation_count > 2 THEN 100 ELSE 0)
      upper_part        == IF shouting THEN 150 ELSE 0
      \* the loop over emotional_indicators breaks at the first hit
      emotional_part    == IF AnyContained(emotional_indicators, message_lower) THEN 100 ELSE 0
      \* the loop over personal_indicators has no break: one addition per indicator found
      personal_part     == 50 * Cardinality({i \in 1..Len(personal_indicators) :
                                               Contains(personal_indicators[i], message_lower)})
  IN  500 + length_part + question_part + exclamation_part
      + upper_part + emotional_part + personal_part

parse_user_message(message) ==
  LET upper_count == Cardinality({i \in 1..Len(message) : message[i] \in UpperChars})
  IN  [ raw_message          |-> message,
        length               |-> Len(message),
        word_count           |-> WordCount(message),
        has_question         |-> CountChar(message, "?") > 0,
        exclamation_count    |-> CountChar(message, "!"),
        shouting             |-> upper_count * 10 > 3 * Max2(1, Len(message)),
        estimated_engagement |-> Max2(100, Min2(900, EngagementScoreOf(message))) ]

\* The parsed form of every user message (evaluated once).
ParsedMessages == { parse_user_message(m) : m \in UserMessages }

----
\* engines/emotional.py : the mood engine

emotion_triggers ==
  << [emotion_type |-> "upset_keywords", keywords |->
        << <<"u","p","s","e","t">>,
           <<"a","n","g","r","y">>,
           <<"f","r","u","s","t","r","a","t","e","d">>,
           <<"m","a","d">>,
           <<"a","n","n","o","y","e","d">>,
           <<"f","u","r","i","o","u","s">>,
           <<"p","i","s","s","e","d">> >>],
     [emotion_type |-> "sad_keywords", keywords |->
        << <<"s","a","d">>,
           <<"d","e","p","r","e","s","s","e","d">>,
           <<"d","o","w","n">>,
           <<"c","r","y","i","n","g">>,
           <<"h","e","a","r","t","b","r","o","k","e","n">>,
           <<"d","e","v","a","s","t","a","t","e","d">> >>],
     [emotion_type |-> "excited_keywords", keywords |->
        << <<"e","x","c","i","t","e","d">>,
           <<"t","h","r","i","l","l","e","d">>,
           <<"a","m","a","z","i","n","g">>,
           <<"a","w","e","s","o","m","e">>,
           <<"f","a","n","t","a","s","t","i","c">>,
           <<"i","n","c","r","e","d","i","b","l","e">> >>],
     [emotion_type |-> "bored_keywords", keywords |->
        << <<"b","o","r","i","n","g">>,
           <<"b","o","r","e","d">>,
           <<"t","i","r","e","d">>,
           <<"w","h","a","t","e","v","e","r">>,
           <<"m","e","h">>,
           <<"u","n","i","n","t","e","r","e","s","t","i","n","g">> >>],
     [emotion_type |-> "confused_keywords", keywords |->
        << <<"c","o","n","f","u","s","e","d">>,
           <<"l","o","s","t">>,
           <<"u","n","c","l","e","a","r">>,
           <<"w","h","a","t">>,
           <<"h","u","h">>,
           <<"u","n","d","e","r","s","t","a","n","d">> >>],
     [emotion_type |-> "thoughtful_keywords", keywords |->
        << <<"t","h","i","n","k">>,
           <<"c","o","n","s","i","d","e","r">>,
           <<"r","e","f","l","e","c","t">>,
           <<"p","o","n","d","e","r">>,
           <<"c","o","n","t","e","m","p","l","a","t","e">>,
           <<"w","o","n","d","e","r">> >>],
     [emotion_type |-> "calm_keywords", keywords |->
        << <<"p","e","a","c","e","f","u","l">>,
           <<"c","a","l","m">>,
           <<"r","e","l","a","x","e","d">>,
           <<"s","e","r","e","n","e">>,
           <<"q","u","i","e","t">>,
           <<"s","t","i","l","l">> >>] >>

strong_keywords ==
  << <<"f","u","r","i","o","u","s">>,
     <<"d","e","v","a","s","t","a","t","e","d">>,
     <<"i","n","c","r","e","d","i","b","l","e">>,
     <<"a","m","a","z","i","n","g">> >>

gentle_keywords ==
  << <<"t","h","i","n","k">>,
     <<"c","o","n","s","i","d","e","r">>,
     <<"c","a","l","m">>,
     <<"p","e","a","c","e","f","u","l">> >>

NoTrigger == [trigger_detected |-> FALSE, primary_trigger |-> "none", intensity |-> 0]

\* Mutant of _detect_emotional_triggers: the loops do not break, the last hit wins.
_detect_emotional_triggersNoBreak(message_text) ==
  LET pairs == UNION { { <<i, j>> : j \in 1..Len(emotion_triggers[i].keywords) } :
                        i \in 1..Len(emotion_triggers) }
      hits  == { p \in pairs : Contains(emotion_triggers[p[1]].keywords[p[2]], message_text) }
  IN  IF hits = {} THEN NoTrigger
      ELSE LET last == CHOOSE p \in hits :
                          \A q \in hits : p[1] > q[1] \/ (p[1] = q[1] /\ p[2] >= q[2])
               keyword == emotion_triggers[last[1]].keywords[last[2]]
           IN  [ trigger_detected |-> TRUE,
                 primary_trigger  |-> emotion_triggers[last[1]].emotion_type,
                 intensity        |-> IF InList(keyword, strong_keywords) THEN 900
                                      ELSE IF InList(keyword, gentle_keywords) THEN 400
                                      ELSE 700 ]

_detect_emotional_triggers(message_text) ==
  LET pairs == UNION { { <<i, j>> : j \in 1..Len(emotion_triggers[i].keywords) } :
                        i \in 1..Len(emotion_triggers) }
      hits  == { p \in pairs : Contains(emotion_triggers[p[1]].keywords[p[2]], message_text) }
  IN  IF hits = {} THEN NoTrigger
      ELSE LET \* both loops break at the first hit: first category, first keyword in it
               first == CHOOSE p \in hits :
                          \A q \in hits : p[1] < q[1] \/ (p[1] = q[1] /\ p[2] <= q[2])
               keyword == emotion_triggers[first[1]].keywords[first[2]]
           IN  [ trigger_detected |-> TRUE,
                 primary_trigger  |-> emotion_triggers[first[1]].emotion_type,
                 intensity        |-> IF InList(keyword, strong_keywords) THEN 900
                                      ELSE IF InList(keyword, gentle_keywords) THEN 400
                                      ELSE 700 ]

\* The trigger of every user message (evaluated once).
TriggerOf == [m \in UserMessages |-> _detect_emotional_triggers(Lower(m))]

\* min(0.9, max(0.1, x))
Clamp(lo, hi, x) == Max2(lo, Min2(hi, x))

_apply_emotional_shift(mood, emotional_impact) ==
  LET trigger_type == emotional_impact.primary_trigger
      intensity    == emotional_impact.intensity
      tenth        == intensity \div 10       \* intensity * 0.1
      fifth        == intensity \div 5        \* intensity * 0.2
  IN  CASE trigger_type = "upset_keywords" ->
             [mood EXCEPT !.primary_emotion  = "concerned",
                          !.engagement_level = Min2(900, 800 + tenth),
                          !.energy_level     = Min2(900, 700 + fifth),
                          !.curiosity_level  = Min2(900, 800 + tenth)]
        [] trigger_type = "sad_keywords" ->
             [mood EXCEPT !.primary_emotion  = "empathetic",
                          !.engagement_level = Max2(500, 700 - tenth),
                          !.energy_level     = Max2(200, 400 - tenth)]
        [] trigger_type = "excited_keywords" ->
             [mood EXCEPT !.primary_emotion  = "excited",
                          !.engagement_level = Min2(900, 800 + tenth),
                          !.energy_level     = Min2(900, 800 + tenth)]
        [] trigger_type = "bored_keywords" ->
             [mood EXCEPT !.primary_emotion  = "bored",
                          !.engagement_level = Max2(100, 200),
                          !.energy_level     = Max2(100, 300)]
        [] trigger_type = "confused_keywords" ->
             [mood EXCEPT !.primary_emotion  = "helpful",
                          !.engagement_level = Min2(800, 700 + tenth),
                          !.curiosity_level  = Min2(900, 800 + tenth)]
        [] trigger_type = "thoughtful_keywords" ->
             [mood EXCEPT !.primary_emotion  = "contemplative",
                          !.engagement_level = Min2(700, 600 + tenth),
                          !.energy_level     = Max2(200, 400 - tenth),
                          !.curiosity_level  = Min2(800, 700 + tenth)]
        [] trigger_type = "calm_keywords" ->
             [mood EXCEPT !.primary_emotion  = "reflective",
                          !.engagement_level = Min2(600, 500 + tenth),
                          !.energy_level     = Max2(200, 300),
                          !.curiosity_level  = Min2(600, 500 + tenth)]
        [] OTHER -> mood

\* Lines 41-51: the no-trigger blend.  new_engagement is kept doubled so that
\* 0.5 * a + 0.5 * b stays on the grid; change * 2.0 is then the doubled change.
BlendEngagement(current_engagement, message_engagement) ==
  LET new_engagement_x2 == current_engagement + message_engagement
      change_x2         == new_engagement_x2 - 2 * current_engagement
      amplified_change  == change_x2
  IN  Max2(100, Min2(900, current_engagement + amplified_change))

\* Mutant of AdjustEnergy: the upward and downward moves are not clamped.
AdjustEnergyUnclamped(energy, message_engagement) ==
  IF message_engagement > 700 THEN energy + 150
  ELSE IF message_engagement < 300 THEN energy - 150
  ELSE IF message_engagement < 400 THEN energy - 50
  ELSE energy

\* Lines 53-60: the energy adjustment
AdjustEnergy(energy, message_engagement) ==
  IF message_engagement > 700 THEN Min2(900, energy + 150)
  ELSE IF message_engagement < 300 THEN Max2(100, energy - 150)
  ELSE IF message_engagement < 400 THEN Max2(200, energy - 50)
  ELSE energy

\* Mutant of BandEmotion: the row of 'engaged' is tried before the row of 'excited'.
BandEmotionEngagedFirst(engagement, energy) ==
  IF engagement > 700 /\ energy > 500 THEN "engaged"
  ELSE IF engagement > 800 /\ energy > 700 THEN "excited"
  ELSE IF engagement > 600 /\ energy < 400 THEN "contemplative"
  ELSE IF engagement > 500 /\ energy < 300 THEN "reflective"
  ELSE IF engagement > 400 THEN "interested"
  ELSE IF engagement > 300 /\ energy < 400 THEN "thoughtful"
  ELSE IF engagement > 200 THEN "neutral"
  ELSE IF energy < 300 THEN "tired"
  ELSE "bored"

\* Mutant of BandEmotion: the first band asks for energy > 0.8.
BandEmotionStrict(engagement, energy) ==
  IF engagement > 800 /\ energy > 800 THEN "excited"
  ELSE IF engagement > 700 /\ energy > 500 THEN "engaged"
  ELSE IF engagement > 600 /\ energy < 400 THEN "contemplative"
  ELSE IF engagement > 500 /\ energy < 300 THEN "reflective"
  ELSE IF engagement > 400 THEN "interested"
  ELSE IF engagement > 300 /\ energy < 400 THEN "thoughtful"
  ELSE IF engagement > 200 THEN "neutral"
  ELSE IF energy < 300 THEN "tired"
  ELSE "bored"

\* Lines 62-84: the ordered (engagement, energy) band table
BandEmotion(engagement, energy) ==
  IF engagement > 800 /\ energy > 700 THEN "excited"
  ELSE IF engagement > 700 /\ energy > 500 THEN "engaged"
  ELSE IF engagement > 600 /\ energy < 400 THEN "contemplative"
  ELSE IF engagement > 500 /\ energy < 300 THEN "reflective"
  ELSE IF engagement > 400 THEN "interested"
  ELSE IF engagement > 300 /\ energy < 400 THEN "thoughtful"
  ELSE IF engagement > 200 THEN "neutral"
  ELSE IF energy < 300 THEN "tired"
  ELSE "bored"

\* Lines 86-91
AdjustCuriosity(curiosity, has_question) ==
  IF has_question THEN Min2(900, curiosity + 100) ELSE Max2(300, curiosity - 20)

\* Mutant of TrimMoodHistory: the trim keeps the oldest 25 entries (history[:25]).
TrimMoodHistoryOldest(history) == IF Len(history) > 50 THEN SubSeq(history, 1, 25) ELSE history

\* Lines 102-104
TrimMoodHistory(history) == IF Len(history) > 50 THEN LastN(history, 25) ELSE history

\* The mood after update_mood_from_input(parsed_message), lines 32-91
MoodAfterUpdate(mood, parsed_message) ==
  LET message_engagement == parsed_message.estimated_engagement
      emotional_impact   == TriggerOf[parsed_message.raw_message]
      shifted   == IF emotional_impact.trigger_detected
                   THEN _apply_emotional_shift(mood, emotional_impact)
                   ELSE [mood EXCEPT !.engagement_level =
                           BlendEngagement(mood.engagement_level, message_engagement)]
      energised == [shifted EXCEPT !.energy_level = AdjustEnergy(shifted.energy_level, message_engagement)]
      \* the band table runs on every update, after a trigger as well
      mapped    == [energised EXCEPT !.primary_emotion =
                      BandEmotion(energised.engagement_level, energised.energy_level)]
  IN  [mapped EXCEPT !.curiosity_level = AdjustCuriosity(mapped.curiosity_level, parsed_message.has_question)]

\* A mood history entry.  Of the entry's fields only the time stamp is kept:
\* the snapshot, trigger and score are written here and read by no handler
\* of the turn.
MoodHistoryEntry(n) == [timestamp |-> n]

update_mood_from_input(parsed_message) ==
  /\ current_mood' = MoodAfterUpdate(current_mood, parsed_message)
  /\ mood_history' = TrimMoodHistory(Append(mood_history, MoodHistoryEntry(mood_updates + 1)))
  /\ mood_updates' = mood_updates + 1
  /\ last_parsed' = parsed_message
  /\ last_op' = "update"
  /\ UNCHANGED << engagement_trend, behaviorVars, normalizerVars, turnVars >>

\* Lines 196-198
TrimTrend(trend) == IF Len(trend) > 20 THEN LastN(trend, 10) ELSE trend

\* Mutant of EnergyAfterFeedback: poor feedback damps the energy whatever it is.
EnergyAfterFeedbackAlwaysDamp(energy, feedback_score) ==
  IF feedback_score > 800 THEN Min2(900, energy + 50)
  ELSE IF feedback_score < 300 THEN (energy * 8) \div 10
  ELSE energy

\* Lines 200-211
EnergyAfterFeedback(energy, feedback_score) ==
  IF feedback_score > 800 THEN Min2(900, energy + 50)
  ELSE IF feedback_score < 300
       THEN IF energy > 700 THEN (energy * 8) \div 10
            ELSE IF energy < 300 THEN Min2(600, (energy * 12) \div 10)
            ELSE energy
       ELSE energy

\* Lines 189-198
TrendAfterFeedback(trend, engagement_score, feedback_score) ==
  TrimTrend(Append(trend, [engagement |-> engagement_score, feedback |-> feedback_score]))

learn_from_feedback(engagement_score, feedback_score) ==
  /\ engagement_trend' = TrendAfterFeedback(engagement_trend, engagement_score, feedback_score)
  /\ current_mood' = [current_mood EXCEPT !.energy_level =
                        EnergyAfterFeedback(current_mood.energy_level, feedback_score)]
  /\ last_op' = "learn_from_feedback"
  /\ UNCHANGED << mood_history, mood_updates, last_parsed, behaviorVars, normalizerVars, turnVars >>

----
\* engines/behavioral.py : the behaviour engine

InitialParams ==
  [initiative_threshold |-> 350, topic_change_frequency |-> 4,
   curiosity_drive |-> 700, empathy_response |-> 600, boredom_tolerance |-> 400]

\* Lines 254-260
InitiativeRecord(n, initiative_taken, engagement_result) ==
  [timestamp |-> n, initiative_taken |-> initiative_taken,
   engagement_result |-> engagement_result,
   success |-> engagement_result > 600,
   strong_success |-> engagement_result > 800]

\* Lines 262-264
TrimInitiativeHistory(history) == IF Len(history) > 20 THEN LastN(history, 10) ELSE history

\* Mutant of AdaptThreshold: the raise is not capped and the cut has no floor.
AdaptThresholdUnclamped(threshold, history) ==
  IF Len(history) >= 4
  THEN LET last5     == LastN(history, 5)
           recent    == {i \in 1..Len(last5) : last5[i].initiative_taken}
           successes == {i \in recent : last5[i].success}
       IN  IF recent # {}
           THEN IF Cardinality(successes) * 10 > 8 * Cardinality(recent)
                THEN threshold + 50
                ELSE IF Cardinality(successes) * 10 < 3 * Cardinality(recent)
                     THEN threshold - 50
                     ELSE threshold
           ELSE threshold
  ELSE threshold

\* Mutant of AdaptThreshold: the raise fires at success_rate >= 0.8.
AdaptThresholdInclusive(threshold, history) ==
  IF Len(history) >= 4
  THEN LET last5     == LastN(history, 5)
           recent    == {i \in 1..Len(last5) : last5[i].initiative_taken}
           successes == {i \in recent : last5[i].success}
       IN  IF recent # {}
           THEN IF Cardinality(successes) * 10 >= 8 * Cardinality(recent)
                THEN Min2(600, threshold + 50)
                ELSE IF Cardinality(successes) * 10 < 3 * Cardinality(recent)
                     THEN Max2(200, threshold - 50)
                     ELSE threshold
           ELSE threshold
  ELSE threshold

\* Mutant of AdaptThreshold: the window is the last four records.
AdaptThresholdWindow4(threshold, history) ==
  IF Len(history) >= 4
  THEN LET last5     == LastN(history, 4)
           recent    == {i \in 1..Len(last5) : last5[i].initiative_taken}
           successes == {i \in recent : last5[i].success}
       IN  IF recent # {}
           THEN IF Cardinality(successes) * 10 > 8 * Cardinality(recent)
                THEN Min2(600, threshold + 50)
                ELSE IF Cardinality(successes) * 10 < 3 * Cardinality(recent)
                     THEN Max2(200, threshold - 50)
                     ELSE threshold
           ELSE threshold
  ELSE threshold

\* Mutant of AdaptThreshold: adapting starts at three records.
AdaptThresholdFrom3(threshold, history) ==
  IF Len(history) >= 3
  THEN LET last5     == LastN(history, 5)
           recent    == {i \in 1..Len(last5) : last5[i].initiative_taken}
           successes == {i \in recent : last5[i].success}
       IN  IF recent # {}
           THEN IF Cardinality(successes) * 10 > 8 * Cardinality(recent)
                THEN Min2(600, threshold + 50)
                ELSE IF Cardinality(successes) * 10 < 3 * Cardinality(recent)
                     THEN Max2(200, threshold - 50)
                     ELSE threshold
           ELSE threshold
  ELSE threshold

\* Lines 266-281: the threshold after adapting to the (trimmed) history
AdaptThreshold(threshold, history) ==
  IF Len(history) >= 4
  THEN LET last5     == LastN(history, 5)
           recent    == {i \in 1..Len(last5) : last5[i].initiative_taken}
           successes == {i \in recent : last5[i].success}
       IN  IF recent # {}
           THEN \* success_rate = successes / recent, compared with 0.8 and 0.3
                IF Cardinality(successes) * 10 > 8 * Cardinality(recent)
                THEN Min2(600, threshold + 50)
                ELSE IF Cardinality(successes) * 10 < 3 * Cardinality(recent)
                     THEN Max2(200, threshold - 50)
                     ELSE threshold
           ELSE threshold
  ELSE threshold

\* Lines 253-264
HistoryAfterOutcome(history, n, initiative_taken, engagement_result) ==
  TrimInitiativeHistory(Append(history, InitiativeRecord(n, initiative_taken, engagement_result)))

learn_from_outcome(initiative_taken, engagement_result) ==
  LET history == HistoryAfterOutcome(initiative_history, outcome_calls + 1,
                                     initiative_taken, engagement_result)
  IN  /\ initiative_history' = history
      /\ behavioral_params' = [behavioral_params EXCEPT !.initiative_threshold =
                                 AdaptThreshold(behavioral_params.initiative_threshold, history)]
      /\ outcome_calls' = outcome_calls + 1
      /\ last_op' = "learn_from_outcome"
      /\ UNCHANGED << moodVars, messages_on_topic, topicVars, analysisVars, normalizerVars, turnVars >>

\* current_topic = None (line 10)
NoTopic == "None"

\* A floating-point sum of tenths: value is the decimal sum in thousandths and
\* above tells that the binary result lies just above it.  Of the sums of the
\* boredom terms only those that reach 0.3 from two or more terms do
\* (0.1 + 0.2 = 0.30000000000000004); a single 0.3 is exact.
FloatSum(terms) ==
  LET RECURSIVE Total(_)
      Total(i) == IF i = 0 THEN 0 ELSE terms[i] + Total(i - 1)
      value    == Total(Len(terms))
  IN  [ value |-> value,
        above |-> value = 300 /\ Cardinality({ i \in 1..Len(terms) : terms[i] # 0 }) >= 2 ]

\* float > threshold (in thousandths)
Above(x, threshold) == x.value > threshold \/ (x.value = threshold /\ x.above)

\* Lines 102-105: the topic-persistence term of the boredom score
TopicPersistenceTerm(on_topic, params) ==
  IF on_topic > params.topic_change_frequency
  THEN Min2(300, (on_topic - params.topic_change_frequency) * 100)
  ELSE 0

\* Lines 87-100: the message-length term; recent_messages are the rows
\* get_recent_messages() returns, each with its role and the words of its content
MessageLengthTerm(recent_messages) ==
  LET last3   == LastN(recent_messages, 3)
      lengths == { i \in 1..Len(last3) : last3[i].content_words > 0 }
      RECURSIVE Total(_)
      Total(i) == IF i = 0 THEN 0
                  ELSE (IF i \in lengths THEN last3[i].content_words ELSE 0) + Total(i - 1)
      total   == Total(Len(last3))
  IN  IF lengths = {} THEN 0
      ELSE IF total < 4 * Cardinality(lengths) THEN 200
      ELSE IF total < 6 * Cardinality(lengths) THEN 100
      ELSE 0

\* Lines 71-111
_calculate_boredom_level(emotional_state, recent_messages, on_topic, params) ==
  LET engagement_term == IF emotional_state.engagement_level < 400 THEN 300
                         ELSE IF emotional_state.engagement_level < 600 THEN 100
                         ELSE 0
      energy_term     == IF emotional_state.energy_level < 300 THEN 200 ELSE 0
      emotion_term    == IF emotional_state.primary_emotion \in {"bored", "tired"} THEN 200 ELSE 0
      boredom_score   == FloatSum(<< engagement_term, energy_term, MessageLengthTerm(recent_messages),
                                     TopicPersistenceTerm(on_topic, params), emotion_term >>)
  IN  IF boredom_score.value >= 1000 THEN [value |-> 1000, above |-> FALSE] ELSE boredom_score

\* Lines 132-138: the trigger the topic persistence adds to the initiative score
TopicTrigger(topic_persistence, params) ==
  IF topic_persistence * 2 > params.topic_change_frequency * 3 THEN "TOPIC_FATIGUE"
  ELSE IF topic_persistence > params.topic_change_frequency THEN "TOPIC_AGING"
  ELSE "none"

\* Lines 113-177; spontaneous is the outcome of random.random() < curiosity_drive * 0.1
_analyze_initiative_needs(boredom_level, engagement, topic_persistence, emotional_state, params, spontaneous) ==
  LET boredom_trigger == IF Above(boredom_level, 500) THEN "MODERATE_BOREDOM"
                         ELSE IF Above(boredom_level, 300) THEN "MILD_BOREDOM"
                         ELSE "none"
      engagement_trigger == IF engagement < params.initiative_threshold
                            THEN "LOW_ENGAGEMENT" ELSE "none"
      topic_trigger   == TopicTrigger(topic_persistence, params)
      primary_emotion == emotional_state.primary_emotion
      emotion_trigger == IF primary_emotion \in {"bored", "tired"} THEN "NEGATIVE_EMOTION"
                         ELSE IF primary_emotion \in {"contemplative", "reflective"}
                              THEN "THOUGHTFUL_MOMENT"
                         ELSE IF primary_emotion = "neutral" /\ engagement < 500
                              THEN "EMOTIONAL_FLATNESS"
                         ELSE "none"
      curiosity_trigger == IF spontaneous THEN "SPONTANEOUS_CURIOSITY" ELSE "none"
      weight == [ MODERATE_BOREDOM |-> 300, MILD_BOREDOM |-> 150, LOW_ENGAGEMENT |-> 250,
                  TOPIC_FATIGUE |-> 250, TOPIC_AGING |-> 100, NEGATIVE_EMOTION |-> 300,
                  THOUGHTFUL_MOMENT |-> 100, EMOTIONAL_FLATNESS |-> 150,
                  SPONTANEOUS_CURIOSITY |-> 150, none |-> 0 ]
      fired    == << boredom_trigger, engagement_trigger, topic_trigger,
                     emotion_trigger, curiosity_trigger >>
      initiative_score == weight[fired[1]] + weight[fired[2]] + weight[fired[3]]
                          + weight[fired[4]] + weight[fired[5]]
  IN  [ needed    |-> initiative_score > 50,
        type      |-> IF initiative_score >= 500 THEN "strong"
                      ELSE IF initiative_score >= 250 THEN "moderate"
                      ELSE IF initiative_score > 50 THEN "gentle"
                      ELSE "none",
        intensity |-> IF initiative_score >= 500 THEN Min2(800, initiative_score)
                      ELSE IF initiative_score > 50 THEN initiative_score
                      ELSE 0,
        score     |-> initiative_score,
        triggers  |-> SelectSeq(fired, LAMBDA t : t # "none") ]

\* Lines 179-192
_detect_repetitive_pattern(recent_messages) ==
  IF Len(recent_messages) < 4 THEN FALSE
  ELSE LET ai_messages == SelectSeq(recent_messages, LAMBDA msg : msg.role = "assistant")
           last3       == LastN(ai_messages, 3)
           lengths     == { last3[i].content_words : i \in 1..Len(last3) }
       IN  /\ Len(ai_messages) >= 3
           /\ \A a \in lengths, b \in lengths : a - b < 5

\* Lines 194-211
_determine_behavioral_mode(emotional_state) ==
  LET emotion == emotional_state.primary_emotion
  IN  IF emotion \in {"contemplative", "reflective", "thoughtful"} THEN "contemplative"
      ELSE IF emotion = "tired" \/ emotional_state.energy_level < 300 THEN "low_energy"
      ELSE IF emotion = "excited" /\ emotional_state.energy_level > 700 THEN "energetic"
      ELSE IF emotional_state.engagement_level > 700 THEN "engaged"
      ELSE IF emotional_state.engagement_level < 300 THEN "disengaged"
      ELSE "balanced"

\* Mutant of CountMessage: the counter starts again once it has reached 8.
CountMessageRestart(on_topic, recent_messages) ==
  IF recent_messages # << >> THEN (IF on_topic >= 8 THEN 1 ELSE on_topic + 1) ELSE on_topic

\* Mutant of CountMessage: the counter grows on every call.
CountMessageAlways(on_topic, recent_messages) ==
  on_topic + 1

\* Lines 39-41: the message counter after the increment of analyze_conversation_state
CountMessage(on_topic, recent_messages) ==
  IF recent_messages # << >> THEN on_topic + 1 ELSE on_topic

\* Lines 53-56: the initiative analysis made inside analyze_conversation_state
InitiativeAnalysis(recent_messages, emotional_state, on_topic, params, spontaneous) ==
  LET topic_persistence == CountMessage(on_topic, recent_messages)
  IN  _analyze_initiative_needs(
        _calculate_boredom_level(emotional_state, recent_messages, topic_persistence, params),
        emotional_state.engagement_level, topic_persistence, emotional_state, params, spontaneous)

\* Lines 36-69: the snapshot analyze_conversation_state returns, on_topic being
\* the counter before the call (time_since_change, a clock reading no handler
\* uses, is left out)
analyze_conversation_state(recent_messages, emotional_state, on_topic, params, spontaneous) ==
  LET topic_persistence   == CountMessage(on_topic, recent_messages)
      initiative      == InitiativeAnalysis(recent_messages, emotional_state, on_topic,
                                            params, spontaneous)
  IN  [ avg_engagement         |-> emotional_state.engagement_level,
        boredom_level          |-> _calculate_boredom_level(emotional_state, recent_messages,
                                                            topic_persistence, params),
        topic_persistence      |-> topic_persistence,
        initiative_recommended |-> initiative.needed,
        initiative_type        |-> initiative.type,
        initiative_intensity   |-> initiative.intensity,
        conversation_energy    |-> emotional_state.energy_level,
        pattern_break_needed   |-> _detect_repetitive_pattern(recent_messages),
        behavioral_mode        |-> _determine_behavioral_mode(emotional_state) ]

\* Lines 313-319: the performance record of the outgoing topic; seconds is what
\* the clock shows since topic_start_time, and duration_minutes is seconds / 60
TopicPerformance(messages, seconds) ==
  LET duration == (seconds * 1000) \div 60
  IN  [ messages               |-> messages,
        duration_minutes       |-> duration,
        \* messages / max(1, duration)
        engagement_per_message |-> (messages * 1000 * 1000) \div Max2(1000, duration),
        \* max(0, min(1, (messages - 2) / 5))
        success_score          |-> Max2(0, Min2(1000, (messages - 2) * 200)) ]

----
\* Text helpers standing for Python string methods.

\* The string "..." appended by the truncations
Ellipsis == << ".", ".", "." >>

\* text.split(): the list of the maximal runs of non-blank characters
Split(text) ==
  LET starts  == {i \in 1..Len(text) : text[i] # " " /\ (i = 1 \/ text[i - 1] = " ")}
      ends    == {i \in 1..Len(text) : text[i] # " " /\ (i = Len(text) \/ text[i + 1] = " ")}
      \* the number of the word a position lies in
      word_of == [i \in 1..Len(text) |-> Cardinality({j \in starts : j <= i})]
  IN  [k \in 1..Cardinality(starts) |->
         SubSeq(text, CHOOSE i \in starts : word_of[i] = k,
                      CHOOSE i \in ends : word_of[i] = k)]

RECURSIVE Join(_)
\* ' '.join(words)
Join(words) ==
  IF words = << >> THEN << >>
  ELSE IF Len(words) = 1 THEN words[1]
  ELSE words[1] \o << " " >> \o Join(Tail(words))

\* list[:n]
FirstN(s, n) == SubSeq(s, 1, Min2(n, Len(s)))

\* text.rfind(c): the 0-based index of the last c, -1 if there is none
RFind(text, c) ==
  LET idx == {i \in 1..Len(text) : text[i] = c}
  IN  IF idx = {} THEN -1 ELSE (CHOOSE i \in idx : \A j \in idx : j <= i) - 1

\* text.strip()
Strip(text) ==
  LET idx == {i \in 1..Len(text) : text[i] # " "}
  IN  IF idx = {} THEN << >>
      ELSE SubSeq(text, CHOOSE i \in idx : \A j \in idx : i <= j,
                        CHOOSE i \in idx : \A j \in idx : j <= i)

\* re.sub(r'\s+', ' ', text): every run of blanks becomes one blank
CollapseBlanks(text) ==
  LET keep == {i \in 1..Len(text) : ~(text[i] = " " /\ i > 1 /\ text[i - 1] = " ")}
      Nth(k) == CHOOSE i \in keep : Cardinality({j \in keep : j <= i}) = k
  IN  [k \in 1..Cardinality(keep) |-> text[Nth(k)]]

\* re.search(r'\{.*\}', text, re.DOTALL): greedy, from the first "{" to the last "}"
HasObjectMatch(text) ==
  \E i \in 1..Len(text) : text[i] = "{" /\ \E j \in (i + 1)..Len(text) : text[j] = "}"

ObjectMatch(text) ==
  LET first == CHOOSE i \in 1..Len(text) : text[i] = "{" /\ \A k \in 1..(i - 1) : text[k] # "{"
      last  == CHOOSE j \in 1..Len(text) : text[j] = "}" /\ \A k \in (j + 1)..Len(text) : text[k] # "}"
  IN  SubSeq(text, first, last)

----
\* engines/linguistic.py : the response normalizer
\* A backend reply is a Python value.  The value of a field is a tagged record:
\* absent (no such key), null (None), num, str, bool, or other (a list or any
\* other object).  n is the number in thousandths, w the characters, b the flag.

Absent == [t |-> "absent", n |-> 0, w |-> << >>, b |-> FALSE]

Null == [t |-> "null", n |-> 0, w |-> << >>, b |-> FALSE]

Num(x) == [t |-> "num", n |-> x, w |-> << >>, b |-> FALSE]

Str(chars) == [t |-> "str", n |-> 0, w |-> chars, b |-> FALSE]

Bool(x) == [t |-> "bool", n |-> 0, w |-> << >>, b |-> x]

Other == [t |-> "other", n |-> 0, w |-> << >>, b |-> FALSE]

\* learning_feedback: absent, an object with its two scores, or any other value
AbsentFeedback ==
  [t |-> "absent", response_quality |-> Absent, user_satisfaction_predicted |-> Absent]

Feedback(quality, satisfaction) ==
  [t |-> "dict", response_quality |-> quality, user_satisfaction_predicted |-> satisfaction]

OtherFeedback ==
  [t |-> "other", response_quality |-> Absent, user_satisfaction_predicted |-> Absent]

\* The empty dict
EmptyData ==
  [ response_text |-> Absent, engagement_analysis |-> Absent, boredom_detected |-> Absent,
    topic_shift_suggestion |-> Absent, mood_assessment |-> Absent, initiative_taken |-> Absent,
    learning_feedback |-> AbsentFeedback ]

\* The three shapes of a reply: an object, a string, or None
DictReply(data) == [kind |-> "dict", text |-> << >>, data |-> data]

TextReply(text) == [kind |-> "text", text |-> text, data |-> EmptyData]

NoneReply == [kind |-> "none", text |-> << >>, data |-> EmptyData]

\* bool(v) of Python
Truthy(v) ==
  CASE v.t = "str"   -> v.w # << >>
    [] v.t = "num"   -> v.n # 0
    [] v.t = "bool"  -> v.b
    [] v.t = "other" -> TRUE
    [] OTHER         -> FALSE

\* The outcome of a block of code: a value, or an exception
Returned(data) == [raised |-> FALSE, data |-> data]

Raised == [raised |-> TRUE, data |-> EmptyData]

ErrorText ==
  << "S", "o", "m", "e", "t", "h", "i", "n", "g", "'", "s", " ", "n", "o", "t", " ", "c", "l",
     "i", "c", "k", "i", "n", "g", " ", "f", "o", "r", " ", "m", "e", " ", "r", "i", "g", "h",
     "t", " ", "n", "o", "w", ".", " ", "W", "h", "a", "t", "'", "s", " ", "r", "e", "a", "l",
     "l", "y", " ", "o", "n", " ", "y", "o", "u", "r", " ", "m", "i", "n", "d", "?" >>

FallbackEmptyText ==
  << "L", "e", "t", " ", "m", "e", " ", "t", "h", "i", "n", "k", " ", "a", "b", "o", "u", "t",
     " ", "t", "h", "a", "t", " ", "d", "i", "f", "f", "e", "r", "e", "n", "t", "l", "y", ".",
     ".", "." >>

DefaultText ==
  << "T", "e", "l", "l", " ", "m", "e", " ", "m", "o", "r", "e", " ", "a", "b", "o", "u", "t",
     " ", "t", "h", "a", "t", "." >>

TurnDefaultText ==
  << "L", "e", "t", " ", "m", "e", " ", "t", "h", "i", "n", "k", " ", "a", "b", "o", "u", "t",
     " ", "t", "h", "i", "s", " ", "d", "i", "f", "f", "e", "r", "e", "n", "t", "l", "y", ".",
     ".", "." >>

RawSentinel ==
  << "[", "R", "a", "w", " ", "r", "e", "s", "p", "o", "n", "s", "e", " ", "u", "n", "a", "v",
     "a", "i", "l", "a", "b", "l", "e", "]" >>

JsonTextPadded ==
  << "{", "\"", "r", "e", "s", "p", "o", "n", "s", "e", "_", "t", "e", "x", "t", "\"", ":", " ",
     "\"", "h", "i", " ", " ", "t", "h", "e", "r", "e", "\"", "}" >>

JsonTextPartial ==
  << "H", "e", "r", "e", ":", " ", "{", "\"", "r", "e", "s", "p", "o", "n", "s", "e", "_", "t",
     "e", "x", "t", "\"", ":", " ", "\"", "o", "k", "\"", ",", " ", "\"", "e", "n", "g", "a",
     "g", "e", "m", "e", "n", "t", "_", "a", "n", "a", "l", "y", "s", "i", "s", "\"", ":", " ",
     "1", ".", "5", ",", " ", "\"", "b", "o", "r", "e", "d", "o", "m", "_", "d", "e", "t", "e",
     "c", "t", "e", "d", "\"", ":", " ", "t", "r", "u", "e", "}" >>

BraceText ==
  << "I", " ", "t", "h", "i", "n", "k", " ", "{", "t", "h", "i", "s", "}", " ", "i", "s", " ",
     "f", "u", "n" >>

OpenBraceText ==
  << "h", "a", "l", "f", " ", "{", " ", "o", "p", "e", "n" >>

\* json.loads on the documents the model uses; any other string is not JSON.
JsonDocuments ==
  { [ text |-> <<"{","\"","r","e","s","p","o","n","s","e","_","t","e","x","t","\"",":"," ","\"","h","i"," ","t","h","e","r","e","\"","}">>,
      value |->
        [ response_text |-> Str(<<"h","i"," ","t","h","e","r","e">>),
          engagement_analysis |-> Absent,
          boredom_detected |-> Absent,
          topic_shift_suggestion |-> Absent,
          mood_assessment |-> Absent,
          initiative_taken |-> Absent,
          learning_feedback |-> AbsentFeedback ] ],
    [ text |-> <<"{","\"","r","e","s","p","o","n","s","e","_","t","e","x","t","\"",":"," ","\"","o","k","\"",","," ","\"","e","n","g","a","g","e","m","e","n","t","_","a","n","a","l","y","s","i","s","\"",":"," ","1",".","5",","," ","\"","b","o","r","e","d","o","m","_","d","e","t","e","c","t","e","d","\"",":"," ","t","r","u","e","}">>,
      value |->
        [ response_text |-> Str(<<"o","k">>),
          engagement_analysis |-> Num(1500),
          boredom_detected |-> Bool(TRUE),
          topic_shift_suggestion |-> Absent,
          mood_assessment |-> Absent,
          initiative_taken |-> Absent,
          learning_feedback |-> AbsentFeedback ] ] }

\* json.loads(cleaned_json)
JsonLoads(cleaned_json) ==
  IF \E doc \in JsonDocuments : doc.text = cleaned_json
  THEN Returned((CHOOSE doc \in JsonDocuments : doc.text = cleaned_json).value)
  ELSE Raised

_create_fallback_response(raw_text) ==
  LET words        == Split(raw_text)
      limited_text == IF Len(words) > 55 THEN Join(FirstN(words, 50)) \o Ellipsis
                      ELSE Strip(raw_text)
  IN  [ response_text          |-> Str(IF limited_text # << >> THEN limited_text ELSE FallbackEmptyText),
        engagement_analysis    |-> Num(600),
        boredom_detected       |-> Bool(FALSE),
        topic_shift_suggestion |-> Str(<< >>),
        mood_assessment        |-> Str(<<"t","h","o","u","g","h","t","f","u","l">>),
        initiative_taken       |-> Bool(FALSE),
        learning_feedback      |-> Feedback(Num(600), Num(600)) ]

\* Mutant of _create_error_response: the error object scores engagement 0.0.
_create_error_responseZero ==
  [ response_text          |-> Str(ErrorText),
    engagement_analysis    |-> Num(0),
    boredom_detected       |-> Bool(TRUE),
    topic_shift_suggestion |-> Str(<<"t","r","y"," ","d","i","f","f","e","r","e","n","t"," ","a","p","p","r","o","a","c","h">>),
    mood_assessment        |-> Str(<<"c","o","n","f","u","s","e","d">>),
    initiative_taken       |-> Bool(TRUE),
    learning_feedback      |-> Feedback(Num(300), Num(400)) ]

_create_error_response ==
  [ response_text          |-> Str(ErrorText),
    engagement_analysis    |-> Num(400),
    boredom_detected       |-> Bool(TRUE),
    topic_shift_suggestion |-> Str(<<"t","r","y"," ","d","i","f","f","e","r","e","n","t"," ","a","p","p","r","o","a","c","h">>),
    mood_assessment        |-> Str(<<"c","o","n","f","u","s","e","d">>),
    initiative_taken       |-> Bool(TRUE),
    learning_feedback      |-> Feedback(Num(300), Num(400)) ]

\* The default table; a field it does not list has the default None
_get_default_value ==
  [ response_text          |-> Str(DefaultText),
    engagement_analysis    |-> Num(500),
    boredom_detected       |-> Bool(FALSE),
    topic_shift_suggestion |-> Str(<< >>),
    mood_assessment        |-> Str(<<"n","e","u","t","r","a","l">>),
    initiative_taken       |-> Bool(FALSE) ]

\* Lines 100-115: the object the reply stands for
ExtractData(raw_response) ==
  IF raw_response.kind = "text"
  THEN IF HasObjectMatch(raw_response.text)
       THEN JsonLoads(CollapseBlanks(ObjectMatch(raw_response.text)))
       ELSE Returned(_create_fallback_response(raw_response.text))
  ELSE IF raw_response.kind = "dict"
       THEN Returned(raw_response.data)
       ELSE \* response_data.get on a value that is no dict: AttributeError
            Raised

\* Mutant of LimitWords: the cut keeps 65 words (words[:65]).
LimitWordsKeep65(response_text) ==
  LET words == Split(response_text)
  IN  IF Len(words) > 60
      THEN LET truncated == Join(FirstN(words, 65))
               best_end  == Max2(RFind(truncated, "."),
                                 Max2(RFind(truncated, "?"), RFind(truncated, "!")))
           IN  IF best_end * 10 > Len(truncated) * 8
               THEN SubSeq(truncated, 1, best_end + 1)
               ELSE truncated \o Ellipsis
      ELSE response_text

\* Mutant of LimitWords: the limit is tested against 50 words (len(words) > 50).
LimitWordsOver50(response_text) ==
  LET words == Split(response_text)
  IN  IF Len(words) > 50
      THEN LET truncated == Join(FirstN(words, 55))
               best_end  == Max2(RFind(truncated, "."),
                                 Max2(RFind(truncated, "?"), RFind(truncated, "!")))
           IN  IF best_end * 10 > Len(truncated) * 8
               THEN SubSeq(truncated, 1, best_end + 1)
               ELSE truncated \o Ellipsis
      ELSE response_text

\* Mutant of LimitWords: a sentence end in the second half of the truncation is taken.
LimitWordsHalf(response_text) ==
  LET words == Split(response_text)
  IN  IF Len(words) > 60
      THEN LET truncated == Join(FirstN(words, 55))
               best_end  == Max2(RFind(truncated, "."),
                                 Max2(RFind(truncated, "?"), RFind(truncated, "!")))
           IN  \* best_end > len(truncated) * 0.5
               IF best_end * 10 > Len(truncated) * 5
               THEN SubSeq(truncated, 1, best_end + 1)
               ELSE truncated \o Ellipsis
      ELSE response_text

\* Lines 120-133 on the characters of response_text
LimitWords(response_text) ==
  LET words == Split(response_text)
  IN  IF Len(words) > 60
      THEN LET truncated == Join(FirstN(words, 55))
               best_end  == Max2(RFind(truncated, "."),
                                 Max2(RFind(truncated, "?"), RFind(truncated, "!")))
           IN  \* best_end > len(truncated) * 0.8
               IF best_end * 10 > Len(truncated) * 8
               THEN SubSeq(truncated, 1, best_end + 1)
               ELSE truncated \o Ellipsis
      ELSE response_text

\* Lines 117-133
EnforceWordLimit(response_data) ==
  LET response_text == IF response_data.response_text.t = "absent" THEN Str(<< >>)
                       ELSE response_data.response_text
  IN  IF ~Truthy(response_text) THEN Returned(response_data)
      ELSE IF response_text.t # "str"
           THEN \* .split() on a value that is no string: AttributeError
                Raised
           ELSE Returned([response_data EXCEPT !.response_text = Str(LimitWords(response_text.w))])

\* Lines 135-139
required_fields == << "response_text", "engagement_analysis", "boredom_detected" >>

FillRequired(response_data) ==
  [ f \in DOMAIN response_data |->
      IF InList(f, required_fields) /\ response_data[f].t = "absent"
      THEN _get_default_value[f]
      ELSE response_data[f] ]

\* float(v): numbers and booleans convert, None and other objects raise; the
\* strings of the model are not numerals and raise as well
ToFloat(v) ==
  CASE v.t = "num"  -> Returned(Num(v.n))
    [] v.t = "bool" -> Returned(Num(IF v.b THEN 1000 ELSE 0))
    [] OTHER        -> [raised |-> TRUE, data |-> Absent]

\* Lines 141-143
ClampEngagement(response_data) ==
  IF response_data.engagement_analysis.t # "absent"
  THEN LET f == ToFloat(response_data.engagement_analysis)
       IN  IF f.raised THEN Raised
           ELSE Returned([response_data EXCEPT !.engagement_analysis =
                            Num(Max2(100, Min2(900, f.data.n)))])
  ELSE Returned(response_data)

\* Lines 145-150
EnsureFeedback(response_data) ==
  IF response_data.learning_feedback.t = "absent"
  THEN [response_data EXCEPT !.learning_feedback = Feedback(Num(500), Num(500))]
  ELSE response_data

\* Lines 99-152: the body of the try block
ProcessBody(raw_response) ==
  LET extracted == ExtractData(raw_response)
  IN  IF extracted.raised THEN Raised
      ELSE LET limited == EnforceWordLimit(extracted.data)
           IN  IF limited.raised THEN Raised
               ELSE LET clamped == ClampEngagement(FillRequired(limited.data))
                    IN  IF clamped.raised THEN Raised
                        ELSE Returned(EnsureFeedback(clamped.data))

\* Mutant of process_llm_response: no except clause, the exception leaves the call.
process_llm_responseNoExcept(raw_response) == ProcessBody(raw_response)

\* Lines 97-155: the try block with its `except Exception`
process_llm_response(raw_response) ==
  LET body == ProcessBody(raw_response)
  IN  IF body.raised THEN Returned(_create_error_response) ELSE body

----
\* Initial state: the engines right after construction.

InitialMood ==
  [primary_emotion |-> "neutral", energy_level |-> 500,
   engagement_level |-> 500, curiosity_level |-> 700]

\* A Python dict with no entries
EmptyDict == << >>

\* memory.py lines 20-27: the DNA sheet of a fresh store
DefaultDna ==
  [dna_curiosity_level |-> 700, dna_empathy_base |-> 600, dna_humor_level |-> 500,
   dna_formality_level |-> 400, dna_initiative_threshold |-> 600]

\* memory.py lines 30-36: the state sheet of a fresh store
InitialState ==
  [st_current_mood |-> "neutral", st_conversation_energy |-> 500, st_topic_focus |-> "general",
   st_messages_count |-> 0, st_last_initiative |-> "never",
   st_boredom_level |-> [value |-> 0, above |-> FALSE],
   st_engagement_trend |-> "stable", st_initiative_taken |-> Bool(FALSE)]

\* The workbook: condition tells what a reader finds ("missing": no file,
\* "unreadable": a file that is no workbook, "no_<sheet>": that sheet is gone),
\* dna, state and experience are the contents of the three sheets.
Workbook(condition, dna, state, experience) ==
  [condition |-> condition, dna |-> dna, state |-> state, experience |-> experience]

\* memory.py lines 18-49: the workbook _initialize_excel_structure writes
FreshStore == Workbook("ok", DefaultDna, InitialState, EmptyDict)

\* memory.py lines 16-51: the file is written only if it does not exist
_initialize_excel_structure(workbook) ==
  IF workbook.condition = "missing" THEN FreshStore ELSE workbook

\* memory.py lines 53-79: what load_session_state leaves in memory and on disk.
\* The three sheets are read in the order DNA, Current_State, Experience; the
\* first read that fails ends the loading and calls _initialize_excel_structure.
LoadOutcome(workbook, dna, state, experience) ==
  LET condition == workbook.condition
      dna_read   == condition \notin {"missing", "unreadable", "no_DNA"}
      \* a sheet saved from an empty dict has no 'parameter' column: KeyError
      state_read == dna_read /\ condition # "no_Current_State" /\ workbook.state # EmptyDict
      exp_read   == state_read /\ condition # "no_Experience"
  IN  [ dna_parameters      |-> IF dna_read THEN workbook.dna ELSE dna,
        current_state       |-> IF state_read THEN workbook.state ELSE state,
        \* loaded rows are added to the entries already in memory
        experiential_memory |-> IF exp_read
                                THEN [k \in DOMAIN experience \cup DOMAIN workbook.experience |->
                                        IF k \in DOMAIN workbook.experience
                                        THEN workbook.experience[k] ELSE experience[k]]
                                ELSE experience,
        store               |-> IF exp_read THEN workbook ELSE _initialize_excel_structure(workbook),
        failed              |-> ~exp_read ]

\* memory.py lines 81-113: the workbook after save_session_state; a failure to
\* open the file is caught and leaves the disk as it is.  The Experience sheet
\* is rewritten only when the memory holds entries.
SaveOutcome(workbook, state, experience) ==
  IF workbook.condition \in {"missing", "unreadable"} THEN workbook
  ELSE [workbook EXCEPT !.state = state,
                        !.experience = IF DOMAIN experience = {} THEN @ ELSE experience,
                        !.condition = IF @ = "no_Current_State"
                                         \/ (@ = "no_Experience" /\ DOMAIN experience # {})
                                      THEN "ok" ELSE @]

\* memory.py lines 169-195: update_experiential_learning
ExperienceAfter(experience, engagement_score, initiative_taken) ==
  LET engagement_key   == "engagement.score"
      current          == IF engagement_key \in DOMAIN experience THEN experience[engagement_key]
                          ELSE [value |-> 500, confidence |-> 100]
      \* 0.8 * current + 0.2 * engagement_score, truncated to the grid
      engagement_entry == [value |-> (8 * current.value + 2 * engagement_score) \div 10,
                           confidence |-> Min2(1000, current.confidence + 100)]
      with_engagement  == [k \in DOMAIN experience \cup {engagement_key} |->
                             IF k = engagement_key THEN engagement_entry ELSE experience[k]]
      pattern_key      == IF initiative_taken THEN "pattern.positive_response"
                          ELSE "pattern.good_follow_up"
      pattern          == IF pattern_key \in DOMAIN experience THEN experience[pattern_key]
                          ELSE [value |-> 0, confidence |-> 0]
      \* the pattern counter is a count, not a score
      pattern_entry    == [value |-> pattern.value + 1,
                           confidence |-> Min2(1000, pattern.confidence + 50)]
  IN  IF engagement_score > 700
      THEN [k \in DOMAIN with_engagement \cup {pattern_key} |->
              IF k = pattern_key THEN pattern_entry ELSE with_engagement[k]]
      ELSE with_engagement

\* provider_factory.py lines 6-30: which provider class the factory returns.
\* claude_ready tells whether importing and constructing ClaudeProvider works
\* (the anthropic package is installed and the config carries an api_key).
create_provider(provider_type, claude_ready) ==
  IF provider_type = "local" THEN "local"
  ELSE IF provider_type = "claude" THEN (IF claude_ready THEN "claude" ELSE "local")
  ELSE "local"

\* No generate_response call has been made
NoCall ==
  [ provider |-> "none", raw_mode |-> "omitted", raised |-> FALSE, internal_failure |-> FALSE,
    reply |-> NoneReply ]

NoOutcome == [status |-> "none", response_text |-> Absent, steps |-> << >>]

\* No query method has been called
NothingReturned == [method |-> "none"]

InitCore ==
  /\ current_mood = InitialMood
  /\ mood_history = << >>
  /\ engagement_trend = << >>
  /\ mood_updates = 0
  /\ last_parsed = parse_user_message(<< >>)
  /\ initiative_history = << >>
  /\ behavioral_params = InitialParams
  /\ outcome_calls = 0
  /\ messages_on_topic = 0
  /\ current_topic = NoTopic
  /\ topic_performance = EmptyDict
  /\ topic_changes = 0
  /\ behavior_context = EmptyDict
  /\ initiative_analysis = EmptyDict
  /\ chat_log = << >>
  /\ llm_context = EmptyDict
  /\ log_entry = EmptyDict
  /\ raw_provider_call = NoCall
  /\ current_raw_debug = EmptyDict
  /\ llm_provider = create_provider("claude", TRUE)
  /\ provider_call = NoCall
  /\ turn_outcome = NoOutcome
  /\ returned = NothingReturned
  /\ engagement_ulps = 0
  /\ last_op = "init"

\* main.py lines 15 and 23: the memory manager is built on a fresh store and
\* load_session_state has loaded it
InitEngines ==
  /\ InitCore
  /\ store = FreshStore
  /\ dna_parameters = DefaultDna
  /\ current_state = InitialState
  /\ experiential_memory = EmptyDict

Init ==
  /\ InitEngines
  /\ processed_llm_response = NoneReply
  /\ final_processed_response = Returned(EmptyData)

\* Bounds of the mood specification
MaxMoodUpdates == 4

MaxFeedbacks == 2

EngagementScores == {300, 700}

FeedbackScores == {200, 500, 900}

UpdateMood ==
  /\ mood_updates < MaxMoodUpdates
  /\ \E p \in ParsedMessages : update_mood_from_input(p)

LearnFeedback ==
  /\ Len(engagement_trend) < MaxFeedbacks
  /\ \E e \in EngagementScores, f \in FeedbackScores : learn_from_feedback(e, f)

NextMood == UpdateMood \/ LearnFeedback

SpecMood == Init /\ [][NextMood]_vars

\* C1: in every state reachable by interleaving update and learn_from_feedback,
\* engagement_level and energy_level lie in [0.1, 0.9] and curiosity_level in [0, 1].
MoodInRange ==
  /\ current_mood.engagement_level >= 100 /\ current_mood.engagement_level <= 900
  /\ current_mood.energy_level >= 100 /\ current_mood.energy_level <= 900
  /\ current_mood.curiosity_level >= 0 /\ current_mood.curiosity_level <= 1000

\* The emotion each trigger category maps to
TriggerEmotion ==
  [ upset_keywords |-> "concerned", sad_keywords |-> "empathetic", excited_keywords |-> "excited",
    bored_keywords |-> "bored", confused_keywords |-> "helpful",
    thoughtful_keywords |-> "contemplative", calm_keywords |-> "reflective" ]

\* C10 as claimed: after an update in which a keyword trigger fired, primary_emotion
\* is the emotion mapped to the triggering category; the band table decides only
\* when no trigger fired.
TriggerDecidesEmotion ==
  last_op = "update" =>
    LET impact == TriggerOf[last_parsed.raw_message]
    IN  IF impact.trigger_detected
        THEN current_mood.primary_emotion = TriggerEmotion[impact.primary_trigger]
        ELSE current_mood.primary_emotion =
               BandEmotion(current_mood.engagement_level, current_mood.energy_level)

\* The two scenario messages
WhateverMessage == <<"w","h","a","t","e","v","e","r",","," ","t","h","i","s"," ","i","s"," ","b","o","r","i","n","g">>

WowMessage == <<"W","O","W"," ","t","h","i","s"," ","i","s"," ","A","M","A","Z","I","N","G","!","!","!">>

\* The first call on a fresh engine was update
FirstUpdate == last_op = "update" /\ mood_updates = 1 /\ engagement_trend = << >>

\* C11: from the initial neutral mood, update on "whatever, this is boring" fires
\* the bored category (not confused) and ends with primary_emotion = bored,
\* engagement_level = 0.2 and energy_level = 0.3.
BoredScenario ==
  (FirstUpdate /\ last_parsed.raw_message = WhateverMessage) =>
    /\ TriggerOf[WhateverMessage].trigger_detected
    /\ TriggerOf[WhateverMessage].primary_trigger = "bored_keywords"
    /\ current_mood.primary_emotion = "bored"
    /\ current_mood.engagement_level = 200
    /\ current_mood.energy_level = 300

\* The scenario of C11 has run: the message contains "what" and was the first update.
BoredScenarioRun ==
  /\ FirstUpdate /\ last_parsed.raw_message = WhateverMessage
  /\ Contains(<<"w","h","a","t">>, Lower(last_parsed.raw_message))
  /\ current_mood.primary_emotion = "bored"

\* engagement_score of "WOW this is AMAZING!!!" before the clamp
WowScore == EngagementScoreOf(WowMessage)

\* C12: every update in which the excited category fires, from any prior mood,
\* ends with primary_emotion = excited and engagement_level in [0.8, 0.9]; for
\* "WOW this is AMAZING!!!" the unclamped engagement_score is at least 0.9 and
\* energy_level also ends in [0.8, 0.9].
ExcitedScenario ==
  last_op = "update" =>
    /\ TriggerOf[last_parsed.raw_message].primary_trigger = "excited_keywords" =>
          /\ current_mood.primary_emotion = "excited"
          /\ current_mood.engagement_level >= 800 /\ current_mood.engagement_level <= 900
    /\ last_parsed.raw_message = WowMessage =>
          /\ TriggerOf[WowMessage].primary_trigger = "excited_keywords"
          /\ WowScore >= 900
          /\ current_mood.energy_level >= 800 /\ current_mood.energy_level <= 900

\* The excited category has fired on a mood that earlier calls had moved, with a
\* message whose low engagement score pulls the energy down again.
ExcitedFromMovedMood ==
  /\ last_op = "update" /\ mood_updates >= 2 /\ engagement_trend # << >>
  /\ TriggerOf[last_parsed.raw_message].primary_trigger = "excited_keywords"
  /\ last_parsed.estimated_engagement < 300
  /\ current_mood.energy_level < 800

\* Both operations have run and both clamped scalars sit on their upper limit.
MoodAtUpperLimit ==
  /\ mood_updates > 0 /\ engagement_trend # << >>
  /\ current_mood.engagement_level = 900
  /\ current_mood.energy_level = 900

----
\* The response normalizer on the replies a backend can hand over.

\* A text of n words "ab", the p-th of which ends a sentence ("ab."); p = 0: none does
Text(n, p) == Join([i \in 1..n |-> IF i = p THEN << "a", "b", "." >> ELSE << "a", "b" >>])

\* Length of the over-long replies of the model
LongWords == 70

ReplyTexts ==
  { << >>, Text(1, 0), << " " >> \o Text(3, 0) \o << " " >>, Text(50, 0), Text(55, 0),
    Text(56, 0), Text(60, 60), Text(61, 0), Text(LongWords, 0), Text(LongWords, 30),
    Text(LongWords, 50), Text(LongWords, 55) }

ResponseTextValues == { Absent, Null, Num(5), Bool(FALSE) } \cup { Str(t) : t \in ReplyTexts }

EngagementValues ==
  { Absent, Null, Num(-200), Num(500), Num(1500), Bool(TRUE), Str(<<"h","i","g","h">>) }

FeedbackValues ==
  { AbsentFeedback, OtherFeedback, Feedback(Num(800), Num(700)), Feedback(Absent, Num(700)),
    Feedback(Str(<<"h","i","g","h">>), Num(700)), Feedback(Null, Null) }

\* The objects a backend can return: any field may be missing or of any type
StructuredReplies ==
  { DictReply([ response_text          |-> rt,
                engagement_analysis    |-> ea,
                boredom_detected       |-> bd,
                topic_shift_suggestion |-> IF opt THEN Str(<< >>) ELSE Absent,
                mood_assessment        |-> IF opt THEN Str(<<"e","n","g","a","g","e","d">>) ELSE Absent,
                initiative_taken       |-> IF opt THEN Bool(TRUE) ELSE Absent,
                learning_feedback      |-> lf ]) :
      rt \in ResponseTextValues, ea \in EngagementValues, bd \in {Absent, Bool(TRUE)},
      opt \in BOOLEAN, lf \in FeedbackValues }

\* The strings a backend can return: plain text, text around an object, text with braces
TextReplies ==
  { TextReply(t) : t \in ReplyTexts \cup {JsonTextPadded, JsonTextPartial, BraceText, OpenBraceText} }

BackendReplies == StructuredReplies \cup TextReplies \cup {NoneReply}

InitNormalizer ==
  /\ InitEngines
  /\ processed_llm_response \in BackendReplies
  /\ final_processed_response = Returned(EmptyData)

Normalize ==
  /\ last_op = "init"
  /\ final_processed_response' = process_llm_response(processed_llm_response)
  /\ last_op' = "process_llm_response"
  /\ UNCHANGED << moodVars, behaviorVars, processed_llm_response, turnVars >>

NextNormalizer == Normalize

SpecNormalizer == InitNormalizer /\ [][NextNormalizer]_vars

Normalized == last_op = "process_llm_response"

\* Number of words of a field value that is a string
Words(v) == Len(Split(v.w))

\* The reply is a string without an object-looking substring
PlainText(reply) == reply.kind = "text" /\ ~HasObjectMatch(reply.text)

\* The reply is a string whose object-looking substring json.loads rejects
UnparseableText(reply) ==
  /\ reply.kind = "text" /\ HasObjectMatch(reply.text)
  /\ JsonLoads(CollapseBlanks(ObjectMatch(reply.text))).raised

\* The response_text a reply comes with: the field of an object, the text of a plain string
ReplyText(reply) ==
  IF reply.kind = "dict" THEN reply.data.response_text
  ELSE IF PlainText(reply) THEN Str(reply.text)
  ELSE Absent

\* C4 as claimed: for every reply whose response_text has N words, the normalized
\* response_text has at most 60 words and is unchanged if N <= 60.
WordLimitAsClaimed ==
  Normalized /\ ReplyText(processed_llm_response).t = "str" =>
    /\ final_processed_response.data.response_text.t = "str"
    /\ Words(final_processed_response.data.response_text) <= 60
    /\ Words(ReplyText(processed_llm_response)) <= 60 =>
          final_processed_response.data.response_text = ReplyText(processed_llm_response)

\* C4 as amended: every normalized response_text has at most 60 words; the text of
\* a structured reply with N <= 60 words is unchanged unless normalization ends in
\* the error object; a plain-text reply is returned stripped of surrounding blanks
\* if it has 1..55 words, cut to its first 50 words plus an ellipsis if it has
\* more than 55, and replaced by a stock sentence if it has none.
WordLimit ==
  Normalized =>
    LET reply == processed_llm_response
        text  == ReplyText(reply)
        out   == final_processed_response.data.response_text
    IN  /\ out.t = "str" => Words(out) <= 60
        /\ (reply.kind = "dict" /\ text.t = "str" /\ Words(text) <= 60
             /\ final_processed_response.data # _create_error_response) => out = text
        /\ PlainText(reply) =>
              out = Str(IF Words(text) > 55 THEN Join(FirstN(Split(text.w), 50)) \o Ellipsis
                        ELSE IF Words(text) = 0 THEN FallbackEmptyText
                        ELSE Strip(text.w))

\* An over-long text of a structured reply has been cut to the limit.
WordLimitApplied ==
  /\ Normalized /\ processed_llm_response.kind = "dict"
  /\ ReplyText(processed_llm_response).t = "str"
  /\ Words(ReplyText(processed_llm_response)) = LongWords
  /\ final_processed_response.data.response_text.t = "str"
  /\ final_processed_response.data.response_text.w # ErrorText
  /\ Words(final_processed_response.data.response_text) <= 60

\* The first 55 words of a text, joined by single blanks
First55(text) == Join(FirstN(Split(text), 55))

\* The 1-based positions of the sentence ends '.', '?' and '!' in a text
SentenceEnds(text) == { i \in 1..Len(text) : text[i] \in {".", "?", "!"} }

\* What the truncation rule makes of a text of more than 60 words: cut after the
\* last sentence end if that lies in the final 20% of the 55-word truncation,
\* the truncation plus an ellipsis otherwise.
CutAtSentenceEnd(text) ==
  LET truncated == First55(text)
      ends      == SentenceEnds(truncated)
      last      == CHOOSE i \in ends : \A j \in ends : j <= i
  IN  IF ends # {} /\ (last - 1) * 10 > Len(truncated) * 8
      THEN SubSeq(truncated, 1, last)
      ELSE truncated \o Ellipsis

\* C16 as claimed: for a reply whose response_text has more than 60 words, the
\* normalized response_text is built from the first 55 words, cut after the last
\* '.', '?' or '!' if that lies in the final 20% of the truncation and followed
\* by an ellipsis otherwise.
TruncationRuleAsClaimed ==
  (Normalized /\ processed_llm_response.kind = "dict"
     /\ ReplyText(processed_llm_response).t = "str"
     /\ Words(ReplyText(processed_llm_response)) > 60) =>
    final_processed_response.data.response_text =
      Str(CutAtSentenceEnd(ReplyText(processed_llm_response).w))

\* C16, amended: for a structured reply whose response_text has more than 60
\* words, the normalized response_text is built from the first 55 words as
\* claimed (a 70-word text without a sentence end in the last 20% of the
\* truncation ends with the ellipsis), unless the later field repair fails and
\* the fixed error object is returned, whose text is the error sentence.
TruncationRule ==
  (Normalized /\ processed_llm_response.kind = "dict"
     /\ ReplyText(processed_llm_response).t = "str"
     /\ Words(ReplyText(processed_llm_response)) > 60) =>
    LET text == ReplyText(processed_llm_response).w
        out  == final_processed_response.data.response_text
        engagement_analysis == processed_llm_response.data.engagement_analysis
    IN  IF engagement_analysis.t # "absent" /\ ToFloat(engagement_analysis).raised
        THEN final_processed_response.data = _create_error_response
        ELSE /\ out = Str(CutAtSentenceEnd(text))
             /\ (Words(Str(text)) = LongWords /\ SentenceEnds(First55(text)) = {}) =>
                   /\ Words(out) = 55
                   /\ SubSeq(out.w, Len(out.w) - 2, Len(out.w)) = Ellipsis

\* A long text has been cut after a sentence end that lies in the last fifth of
\* its first 55 words.
CutAfterSentence ==
  /\ Normalized /\ processed_llm_response.kind = "dict"
  /\ ReplyText(processed_llm_response).t = "str"
  /\ Words(ReplyText(processed_llm_response)) = LongWords
  /\ final_processed_response.data.response_text.t = "str"
  /\ Words(final_processed_response.data.response_text) = 50
  /\ final_processed_response.data.response_text.w[Len(final_processed_response.data.response_text.w)] = "."

FieldNames ==
  { "response_text", "engagement_analysis", "boredom_detected", "topic_shift_suggestion",
    "mood_assessment", "initiative_taken", "learning_feedback" }

\* C5 as claimed: the normalized object always contains all seven fields.
AllFieldsPresent ==
  Normalized => \A f \in FieldNames : final_processed_response.data[f].t # "absent"

\* C6: normalize is idempotent on its own outputs, field by field.
Idempotent ==
  Normalized =>
    process_llm_response(DictReply(final_processed_response.data)) = final_processed_response

\* A plain text too long for the fallback object has been wrapped and cut.
FallbackObjectCut ==
  /\ Normalized /\ PlainText(processed_llm_response)
  /\ Words(Str(processed_llm_response.text)) > 55
  /\ final_processed_response.data = _create_fallback_response(processed_llm_response.text)

\* C7: normalize never raises; a failure inside it yields the fixed error object
\* (boredom_detected true, response_quality 0.3, user_satisfaction_predicted 0.4),
\* and in every outcome engagement_analysis is a number in [0.1, 0.9].
NeverRaises ==
  Normalized =>
    /\ ~final_processed_response.raised
    /\ ProcessBody(processed_llm_response).raised =>
          /\ final_processed_response.data = _create_error_response
          /\ final_processed_response.data.boredom_detected = Bool(TRUE)
          /\ final_processed_response.data.learning_feedback = Feedback(Num(300), Num(400))
    /\ final_processed_response.data.engagement_analysis.t = "num"
    /\ final_processed_response.data.engagement_analysis.n >= 100
    /\ final_processed_response.data.engagement_analysis.n <= 900

\* A failure inside the normalizer has been turned into the error object.
FailureAbsorbed ==
  /\ Normalized /\ ProcessBody(processed_llm_response).raised
  /\ ~final_processed_response.raised
  /\ final_processed_response.data = _create_error_response

\* C8 as claimed: a text whose object extraction or parse fails is wrapped as
\* response_text with the default analysis fields of the fallback object.
ParseFailureFallsBack ==
  Normalized /\ (PlainText(processed_llm_response) \/ UnparseableText(processed_llm_response)) =>
    /\ final_processed_response.data.response_text =
          _create_fallback_response(processed_llm_response.text).response_text
    /\ final_processed_response.data.engagement_analysis = Num(600)
    /\ final_processed_response.data.boredom_detected = Bool(FALSE)
    /\ final_processed_response.data.initiative_taken = Bool(FALSE)

----
\* main.py : the turn orchestrator

\* What is stored as feedback in the trend when response_quality is no number
NonNumeric == 0 - 1

\* ai_response.get(field, default) on the normalized reply
GetOr(v, default) == IF v.t = "absent" THEN default ELSE v

\* Lines 236-242
TrendLabel(engagement_level) ==
  IF engagement_level > 700 THEN "high"
  ELSE IF engagement_level > 400 THEN "stable"
  ELSE "low"

\* memory.py lines 140-159: get_recent_messages(limit); a workbook that cannot
\* be read gives the empty list
get_recent_messages(limit) ==
  IF store.condition \in {"missing", "unreadable"} THEN << >> ELSE LastN(chat_log, limit * 2)

\* memory.py lines 161-167
get_message_count ==
  IF store.condition \in {"missing", "unreadable"} THEN 0 ELSE Len(chat_log)

\* Lines 115-151: the context sent to the backend (the numbers and labels of it)
_build_pure_data_context(emotional_state, context) ==
  [ current_mood           |-> emotional_state.primary_emotion,
    energy_level           |-> emotional_state.energy_level,
    engagement_level       |-> emotional_state.engagement_level,
    curiosity_level        |-> emotional_state.curiosity_level,
    boredom_level          |-> context.boredom_level,
    topic_persistence      |-> context.topic_persistence,
    conversation_energy    |-> context.conversation_energy,
    history_length         |-> Len(get_recent_messages(3)),
    personality_curiosity  |-> IF "dna_curiosity_level" \in DOMAIN dna_parameters
                               THEN dna_parameters.dna_curiosity_level ELSE 700,
    personality_empathy    |-> IF "dna_empathy_base" \in DOMAIN dna_parameters
                               THEN dna_parameters.dna_empathy_base ELSE 600,
    personality_initiative |-> IF "dna_initiative_threshold" \in DOMAIN dna_parameters
                               THEN dna_parameters.dna_initiative_threshold ELSE 600,
    messages_count         |-> get_message_count,
    \* max(0, 1 - topic_persistence / 8)
    topic_freshness        |-> Max2(0, 1000 - context.topic_persistence * 125) ]

\* str(None)
NoneText == <<"N","o","n","e">>

\* str(raw_response) of an object: its printed form, which no handler reads
ReprText == <<"{",".",".",".","}">>

\* Lines 153-185: raw_call is what raw_provider.generate_response(minimal_context,
\* raw_mode=True) did: raised, or returned a reply
_get_raw_llm_response(raw_call) ==
  LET raw_response == raw_call.reply
      result == IF raw_response.kind = "dict"
                THEN IF raw_response.data.response_text.t = "absent" THEN Str(ReprText)
                     ELSE raw_response.data.response_text
                ELSE IF raw_response.kind = "text" THEN Str(raw_response.text)
                ELSE Str(NoneText)
      \* len(result) at line 177 on a value that is no string: TypeError, caught
      failed == raw_call.raised \/ result.t # "str"
  IN  [ raw_llm_response |-> IF failed THEN Str(RawSentinel) ELSE result,
        debug_info       |-> [raw_provider_created |-> TRUE, raw_call_success |-> ~failed] ]

\* Mutant of TurnStepOrder: the primary backend call comes before the raw one.
TurnStepOrderPrimaryFirst ==
  << "parse_user_message", "update_mood_from_input", "analyze_conversation_state",
     "_build_pure_data_context", "generate_response", "_get_raw_llm_response",
     "process_llm_response", "learn_from_feedback", "learn_from_outcome",
     "_log_pure_interaction" >>

\* Lines 80-111: the calls of _process_pure_data_message in the order of its
\* statements (learn_from_feedback and learn_from_outcome are lines 196-197 of
\* _update_pure_learning_systems, called at line 107)
TurnStepOrder ==
  << "parse_user_message", "update_mood_from_input", "analyze_conversation_state",
     "_build_pure_data_context", "_get_raw_llm_response", "generate_response",
     "process_llm_response", "learn_from_feedback", "learn_from_outcome",
     "_log_pure_interaction" >>

\* _process_pure_data_message(user_message) on the parsed message of step 1:
\* the values every variable holds when the call is over.  new_mood is the mood
\* of step 2, context and analysis the behavioural analysis of step 3,
\* pure_context the context of step 4 and raw the outcome of step 5; reply is
\* what the backend gives in step 6 and normalized what step 7 makes of it;
\* log_ok tells whether the store accepts the log row.
TurnSteps(parsed_message, reply, normalized, log_ok, new_mood, context, analysis, pure_context, raw) ==
  LET raw_raises    == raw.raw_llm_response.t = "absent"
      \* 7. process final response: normalized is process_llm_response(reply)
      ai_response   == normalized.data
      \* 8. _update_pure_learning_systems, lines 191-193
      feedback_dict == ai_response.learning_feedback
      feedback_score   == IF feedback_dict.t = "absent" THEN Num(500)
                          ELSE GetOr(feedback_dict.response_quality, Num(500))
      engagement_score == GetOr(ai_response.engagement_analysis, Num(500))
      initiative_taken == GetOr(ai_response.initiative_taken, Bool(FALSE))
      \* .get on a learning_feedback that is no dict: AttributeError at line 191
      get_raises     == feedback_dict.t = "other"
      \* feedback_score > 0.8 on a value that is no number: TypeError at line 201,
      \* after the append of line 190
      compare_raises == feedback_score.t \notin {"num", "bool"}
      feedback_num   == IF feedback_score.t = "num" THEN feedback_score.n
                        ELSE IF feedback_score.t = "bool" THEN (IF feedback_score.b THEN 1000 ELSE 0)
                        ELSE NonNumeric
      learnt_mood    == [new_mood EXCEPT !.energy_level =
                           EnergyAfterFeedback(new_mood.energy_level, feedback_num)]
      new_history    == HistoryAfterOutcome(initiative_history, outcome_calls + 1,
                                            Truthy(initiative_taken), engagement_score.n)
      \* 9. _log_pure_interaction: .split() on a response_text that is no string,
      \* AttributeError at line 286
      final_text     == GetOr(ai_response.response_text, Str(<< >>))
      log_raises     == final_text.t # "str"
      before_learn   == raw_raises \/ normalized.raised
      learn_raises   == before_learn \/ get_raises \/ compare_raises
      raises         == learn_raises \/ log_raises
      word_count     == IF log_raises THEN 0 ELSE WordCount(final_text.w)
      \* the calls made before the turn ended, the one that raised being the last
      calls_made     == IF raw_raises THEN 5
                        ELSE IF normalized.raised \/ get_raises THEN 7
                        ELSE IF compare_raises THEN 8
                        ELSE 10
      entry          == [ user_words              |-> parsed_message.word_count,
                          raw_llm_response        |-> raw.raw_llm_response,
                          final_ai_response       |-> final_text,
                          engagement_level        |-> engagement_score,
                          boredom_level           |-> pure_context.boredom_level,
                          initiative_taken        |-> initiative_taken,
                          topic_persistence       |-> pure_context.topic_persistence,
                          topic_freshness         |-> pure_context.topic_freshness,
                          response_word_count     |-> word_count,
                          word_limit_enforced     |-> word_count <= 60,
                          debug_raw_call_success  |-> raw.debug_info.raw_call_success ]
  IN  [ last_parsed              |-> parsed_message,
        mood_updates             |-> mood_updates + 1,
        mood_history             |-> TrimMoodHistory(Append(mood_history,
                                                            MoodHistoryEntry(mood_updates + 1))),
        messages_on_topic        |-> context.topic_persistence,
        behavior_context         |-> context,
        initiative_analysis      |-> analysis,
        llm_context              |-> pure_context,
        current_raw_debug        |-> raw.debug_info,
        processed_llm_response   |-> IF raw_raises THEN processed_llm_response ELSE reply,
        final_processed_response |-> IF raw_raises THEN final_processed_response ELSE normalized,
        engagement_trend         |-> IF before_learn \/ get_raises THEN engagement_trend
                                     ELSE TrendAfterFeedback(engagement_trend, engagement_score.n,
                                                             feedback_num),
        current_mood             |-> IF learn_raises THEN new_mood ELSE learnt_mood,
        initiative_history       |-> IF learn_raises THEN initiative_history ELSE new_history,
        behavioral_params        |-> IF learn_raises THEN behavioral_params
                                     ELSE [behavioral_params EXCEPT !.initiative_threshold =
                                             AdaptThreshold(behavioral_params.initiative_threshold,
                                                            new_history)],
        outcome_calls            |-> IF learn_raises THEN outcome_calls ELSE outcome_calls + 1,
        experiential_memory      |-> IF learn_raises THEN experiential_memory
                                     ELSE ExperienceAfter(experiential_memory, engagement_score.n,
                                                          Truthy(initiative_taken)),
        current_state            |-> IF learn_raises THEN current_state
                                     ELSE [current_state EXCEPT
                                             !.st_current_mood        = learnt_mood.primary_emotion,
                                             !.st_conversation_energy = learnt_mood.energy_level,
                                             !.st_messages_count      = get_message_count,
                                             !.st_boredom_level       = context.boredom_level,
                                             !.st_engagement_trend    =
                                                TrendLabel(learnt_mood.engagement_level),
                                             !.st_initiative_taken    = initiative_taken],
        log_entry                |-> IF raises THEN log_entry ELSE entry,
        chat_log                 |-> IF ~raises /\ log_ok
                                     THEN Append(chat_log, [role |-> "user",
                                                            content_words |-> parsed_message.word_count])
                                     ELSE chat_log,
        turn_outcome             |-> IF raises
                                     THEN [status |-> "raised", response_text |-> Absent,
                                           steps |-> SubSeq(TurnStepOrder, 1, calls_made)]
                                     ELSE [status |-> "returned",
                                           response_text |-> GetOr(ai_response.response_text,
                                                                   Str(TurnDefaultText)),
                                           steps |-> TurnStepOrder] ]

\* The one element of a set of one
Only(S) == CHOOSE x \in S : TRUE

\* Steps 3 to 5 on the mood of step 2: behavioural analysis of the recent
\* messages, pure data context, raw comparison call
TurnAnalysis(parsed_message, reply, normalized, log_ok, raw_call, spontaneous, new_mood) ==
  Only({ TurnSteps(parsed_message, reply, normalized, log_ok, new_mood, context, analysis,
                   _build_pure_data_context(new_mood, context), raw) :
           context  \in {analyze_conversation_state(get_recent_messages(5), new_mood,
                                                   messages_on_topic, behavioral_params, spontaneous)},
           analysis \in {InitiativeAnalysis(get_recent_messages(5), new_mood, messages_on_topic,
                                           behavioral_params, spontaneous)},
           raw      \in {_get_raw_llm_response(raw_call)} })

\* Lines 77-113, from step 2 (update emotional state) on
TurnResult(parsed_message, reply, normalized, log_ok, raw_call, spontaneous) ==
  Only({ TurnAnalysis(parsed_message, reply, normalized, log_ok, raw_call, spontaneous, new_mood) :
           new_mood \in {MoodAfterUpdate(current_mood, parsed_message)} })

\* Lines 77-113: one turn
ProcessMessage(parsed_message, reply, normalized, log_ok, raw_call, spontaneous) ==
  \E result \in {TurnResult(parsed_message, reply, normalized, log_ok, raw_call, spontaneous)} :
      /\ last_parsed' = result.last_parsed
      /\ mood_updates' = result.mood_updates
      /\ mood_history' = result.mood_history
      /\ messages_on_topic' = result.messages_on_topic
      /\ behavior_context' = result.behavior_context
      /\ initiative_analysis' = result.initiative_analysis
      /\ llm_context' = result.llm_context
      /\ raw_provider_call' = raw_call
      /\ current_raw_debug' = result.current_raw_debug
      /\ processed_llm_response' = result.processed_llm_response
      /\ final_processed_response' = result.final_processed_response
      /\ engagement_trend' = result.engagement_trend
      /\ current_mood' = result.current_mood
      /\ initiative_history' = result.initiative_history
      /\ behavioral_params' = result.behavioral_params
      /\ outcome_calls' = result.outcome_calls
      /\ experiential_memory' = result.experiential_memory
      /\ current_state' = result.current_state
      /\ log_entry' = result.log_entry
      /\ chat_log' = result.chat_log
      /\ turn_outcome' = result.turn_outcome
      /\ last_op' = "turn"
      /\ UNCHANGED << topicVars, store, dna_parameters, providerVars, returned, engagement_ulps >>

MaxTurns == 2

\* The user messages of the turns
TurnMessages ==
  { <<"I"," ","a","m"," ","s","o"," ","u","p","s","e","t">>, <<"m","e","h">>, <<"o","k">>, <<"h","o","w"," ","a","r","e"," ","y","o","u"," ","t","o","d","a","y","?">>,
    <<"a"," ","b"," ","c"," ","d"," ","e"," ","f"," ","g"," ","h"," ","i"," ","j"," ","k"," ","l"," ","m"," ","n"," ","o"," ","p","?">> }

FullReply(text, engagement, initiative, quality) ==
  DictReply([ response_text          |-> text,
              engagement_analysis    |-> engagement,
              boredom_detected       |-> Bool(FALSE),
              topic_shift_suggestion |-> Str(<< >>),
              mood_assessment        |-> Str(<<"e","n","g","a","g","e","d">>),
              initiative_taken       |-> initiative,
              learning_feedback      |-> quality ])

\* ---------------------------------------------------------------------------
\* LLM providers (llm_providers/)
\* ---------------------------------------------------------------------------

\* gpt2_local.py lines 129-135
InitiativeResponses ==
  << <<"I","'","v","e"," ","b","e","e","n"," ","t","h","i","n","k","i","n","g"," ","-"," ","w",
       "h","a","t","'","s"," ","s","o","m","e","t","h","i","n","g"," ","y","o","u","'","r","e",
       " ","g","e","n","u","i","n","e","l","y"," ","e","x","c","i","t","e","d"," ","a","b","o",
       "u","t"," ","r","i","g","h","t"," ","n","o","w","?">>,
     <<"Y","o","u"," ","k","n","o","w"," ","w","h","a","t"," ","f","a","s","c","i","n","a","t",
       "e","s"," ","m","e","?"," ","H","o","w"," ","p","e","o","p","l","e"," ","d","i","s","c",
       "o","v","e","r"," ","n","e","w"," ","i","n","t","e","r","e","s","t","s","."," ","W","h",
       "a","t"," ","w","a","s"," ","t","h","e"," ","l","a","s","t"," ","t","h","i","n","g"," ",
       "t","h","a","t"," ","s","u","r","p","r","i","s","e","d"," ","y","o","u","?">>,
     <<"I","'","m"," ","c","u","r","i","o","u","s"," ","a","b","o","u","t"," ","s","o","m","e",
       "t","h","i","n","g"," ","d","i","f","f","e","r","e","n","t"," ","-"," ","i","f"," ","y",
       "o","u"," ","c","o","u","l","d"," ","h","a","v","e"," ","d","i","n","n","e","r"," ","w",
       "i","t","h"," ","a","n","y","o","n","e",","," ","w","h","o"," ","w","o","u","l","d"," ",
       "i","t"," ","b","e"," ","a","n","d"," ","w","h","y","?">>,
     <<"L","e","t"," ","m","e"," ","s","h","i","f","t"," ","g","e","a","r","s"," ","-"," ","w",
       "h","a","t","'","s"," ","b","e","e","n"," ","t","h","e"," ","h","i","g","h","l","i","g",
       "h","t"," ","o","f"," ","y","o","u","r"," ","w","e","e","k"," ","s","o"," ","f","a","r",
       "?">>,
     <<"I"," ","w","a","n","t"," ","t","o"," ","k","n","o","w"," ","m","o","r","e"," ","a","b",
       "o","u","t"," ","y","o","u"," ","-"," ","w","h","a","t","'","s"," ","a"," ","s","k","i",
       "l","l"," ","y","o","u","'","d"," ","l","o","v","e"," ","t","o"," ","l","e","a","r","n",
       " ","i","f"," ","y","o","u"," ","h","a","d"," ","u","n","l","i","m","i","t","e","d"," ",
       "t","i","m","e","?">> >>

\* gpt2_local.py lines 141-145
BoredResponses ==
  << <<"I"," ","s","e","n","s","e"," ","w","e"," ","m","i","g","h","t"," ","n","e","e","d"," ",
       "a"," ","c","h","a","n","g","e"," ","o","f"," ","p","a","c","e","."," ","W","h","a","t",
       " ","u","s","u","a","l","l","y"," ","g","e","t","s"," ","y","o","u"," ","e","x","c","i",
       "t","e","d","?">>,
     <<"L","e","t","'","s"," ","t","r","y"," ","s","o","m","e","t","h","i","n","g"," ","d","i",
       "f","f","e","r","e","n","t"," ","-"," ","t","e","l","l"," ","m","e"," ","a","b","o","u",
       "t"," ","a"," ","m","o","m","e","n","t"," ","w","h","e","n"," ","y","o","u"," ","f","e",
       "l","t"," ","t","r","u","l","y"," ","a","l","i","v","e",".">>,
     <<"I","'","m"," ","p","i","c","k","i","n","g"," ","u","p"," ","o","n"," ","s","o","m","e",
       " ","r","e","s","t","l","e","s","s","n","e","s","s","."," ","W","h","a","t"," ","w","o",
       "u","l","d"," ","m","a","k","e"," ","t","h","i","s"," ","c","o","n","v","e","r","s","a",
       "t","i","o","n"," ","m","o","r","e"," ","i","n","t","e","r","e","s","t","i","n","g"," ",
       "f","o","r"," ","y","o","u","?">> >>

\* gpt2_local.py lines 151-155
EngagedResponses ==
  << <<"Y","o","u","r"," ","e","n","t","h","u","s","i","a","s","m"," ","i","s"," ","i","n","f",
       "e","c","t","i","o","u","s","!"," ","T","e","l","l"," ","m","e"," ","m","o","r","e"," ",
       "a","b","o","u","t"," ","w","h","a","t"," ","m","a","k","e","s"," ","t","h","i","s"," ",
       "s","o"," ","c","o","m","p","e","l","l","i","n","g",".">>,
     <<"I"," ","l","o","v","e"," ","h","o","w"," ","p","a","s","s","i","o","n","a","t","e"," ",
       "y","o","u"," ","a","r","e"," ","a","b","o","u","t"," ","t","h","i","s","."," ","W","h",
       "a","t"," ","g","o","t"," ","y","o","u"," ","s","o"," ","i","n","t","e","r","e","s","t",
       "e","d"," ","i","n"," ","t","h","e"," ","f","i","r","s","t"," ","p","l","a","c","e","?">>,
     <<"T","h","i","s"," ","i","s"," ","f","a","s","c","i","n","a","t","i","n","g","!"," ","I",
       " ","w","a","n","t"," ","t","o"," ","d","i","v","e"," ","d","e","e","p","e","r"," ","-",
       " ","w","h","a","t"," ","a","s","p","e","c","t"," ","i","n","t","r","i","g","u","e","s",
       " ","y","o","u"," ","m","o","s","t","?">> >>

\* gpt2_local.py lines 161-165
QuestionResponses ==
  << <<"T","h","a","t","'","s"," ","a"," ","t","h","o","u","g","h","t","-","p","r","o","v","o",
       "k","i","n","g"," ","q","u","e","s","t","i","o","n","."," ","L","e","t"," ","m","e"," ",
       "e","x","p","l","o","r","e"," ","t","h","i","s"," ","w","i","t","h"," ","y","o","u",".",
       ".",".">>,
     <<"G","r","e","a","t"," ","q","u","e","s","t","i","o","n","!"," ","I","t"," ","m","a","k",
       "e","s"," ","m","e"," ","t","h","i","n","k"," ","a","b","o","u","t"," ","t","h","e"," ",
       "b","r","o","a","d","e","r"," ","i","m","p","l","i","c","a","t","i","o","n","s"," ","o",
       "f"," ","t","h","i","s",".">>,
     <<"I"," ","f","i","n","d"," ","t","h","a","t"," ","q","u","e","s","t","i","o","n"," ","i",
       "n","t","r","i","g","u","i","n","g"," ","b","e","c","a","u","s","e"," ","i","t"," ","t",
       "o","u","c","h","e","s"," ","o","n"," ","s","o","m","e","t","h","i","n","g"," ","f","u",
       "n","d","a","m","e","n","t","a","l",".",".",".">> >>

\* gpt2_local.py lines 171-176
BasicResponses ==
  << <<"T","h","a","t","'","s"," ","r","e","a","l","l","y"," ","i","n","t","e","r","e","s","t",
       "i","n","g","."," ","I","'","d"," ","l","o","v","e"," ","t","o"," ","u","n","d","e","r",
       "s","t","a","n","d"," ","y","o","u","r"," ","p","e","r","s","p","e","c","t","i","v","e",
       " ","b","e","t","t","e","r",".">>,
     <<"I"," ","a","p","p","r","e","c","i","a","t","e"," ","y","o","u"," ","s","h","a","r","i",
       "n","g"," ","t","h","a","t","."," ","W","h","a","t"," ","m","a","d","e"," ","y","o","u",
       " ","t","h","i","n","k"," ","a","b","o","u","t"," ","t","h","i","s"," ","t","o","p","i",
       "c","?">>,
     <<"T","h","e","r","e","'","s"," ","s","o","m","e","t","h","i","n","g"," ","c","o","m","p",
       "e","l","l","i","n","g"," ","a","b","o","u","t"," ","w","h","a","t"," ","y","o","u","'",
       "r","e"," ","s","a","y","i","n","g","."," ","C","a","n"," ","y","o","u"," ","e","l","a",
       "b","o","r","a","t","e","?">>,
     <<"I","'","m"," ","g","e","n","u","i","n","e","l","y"," ","c","u","r","i","o","u","s"," ",
       "-"," ","w","h","a","t"," ","d","r","a","w","s"," ","y","o","u"," ","t","o"," ","t","h",
       "i","n","k"," ","a","b","o","u","t"," ","t","h","e","s","e"," ","t","h","i","n","g","s",
       "?">> >>

\* A call that returned reply, and a call that raised
\* internal_failure tells that the backend failed inside the call
CallReturned(provider, raw_mode, internal_failure, reply) ==
  [ provider |-> provider, raw_mode |-> raw_mode, raised |-> FALSE,
    internal_failure |-> internal_failure, reply |-> reply ]

CallRaised(provider, raw_mode) ==
  [ provider |-> provider, raw_mode |-> raw_mode, raised |-> TRUE,
    internal_failure |-> FALSE, reply |-> NoneReply ]

\* claude_provider.py line 120
ClaudeRawError ==
  <<"[","C","l","a","u","d","e"," ","A","P","I"," ","e","r","r","o","r"," ","-"," ","r","a",
    "w"," ","r","e","s","p","o","n","s","e"," ","u","n","a","v","a","i","l","a","b","l","e",
    "]">>

\* claude_provider.py lines 124-141
_fallback_response ==
  DictReply([ response_text          |-> Str(<<"I","'","m"," ","h","a","v","i","n","g"," ","t","r","o","u","b","l","e"," ","c","o","n",
                                  "n","e","c","t","i","n","g"," ","r","i","g","h","t"," ","n","o","w","."," ","C","o","u",
                                  "l","d"," ","y","o","u"," ","t","r","y"," ","r","e","p","h","r","a","s","i","n","g"," ",
                                  "t","h","a","t","?">>),
              engagement_analysis    |-> Num(300),
              boredom_detected       |-> Bool(FALSE),
              topic_shift_suggestion |-> Str(<< >>),
              mood_assessment        |-> Str(<<"a","p","o","l","o","g","e","t","i","c">>),
              initiative_taken       |-> Bool(FALSE),
              learning_feedback      |-> Feedback(Num(200), Num(300)),
              error                  |-> Str(<<"A","P","I","_","F","A","L","L","B","A","C","K","_","U","S","E","D">>) ])

\* text.replace('"', '')
RemoveQuotes(text) == SelectSeq(text, LAMBDA c : c # "\"")

\* What the API call of the live backend did: it failed (network, authentication,
\* an empty content list), it returned a text in which a JSON object is found
\* and parsed into data, or it returned a text with no JSON object in it.
ApiError == [kind |-> "error", text |-> << >>, data |-> EmptyData]

ApiJson(text, data) == [kind |-> "json", text |-> text, data |-> data]

ApiText(text) == [kind |-> "text", text |-> text, data |-> EmptyData]

\* claude_provider.py lines 22-122: ClaudeProvider.generate_response(context_data,
\* raw_mode).  An argument raw_mode of "omitted" is the default False.
ClaudeGenerateResponse(raw_mode, api) ==
  LET raw == raw_mode = "true"
  IN  IF api.kind = "error"
      THEN \* lines 118-122
           CallReturned("claude", raw_mode, TRUE,
                        IF raw THEN TextReply(ClaudeRawError) ELSE _fallback_response)
      ELSE IF raw
      THEN \* lines 44-45
           CallReturned("claude", raw_mode, FALSE, TextReply(Strip(api.text)))
      ELSE IF api.kind = "json"
      THEN \* lines 79-91
           CallReturned("claude", raw_mode, FALSE, DictReply(api.data))
      ELSE \* lines 96-116, for a text that starts with neither '{' nor 'response_text'
           CallReturned("claude", raw_mode, FALSE,
                        DictReply([ response_text          |-> Str(Strip(RemoveQuotes(Strip(api.text)))),
                                    engagement_analysis    |-> Num(500),
                                    boredom_detected       |-> Bool(FALSE),
                                    topic_shift_suggestion |-> Str(<< >>),
                                    mood_assessment        |-> Str(<<"n","e","u","t","r","a","l">>),
                                    initiative_taken       |-> Bool(FALSE),
                                    learning_feedback      |-> Feedback(Num(500), Num(500)) ]))

\* random.uniform(low, high): one of the two ends, by the draw
Uniform(low, high, draw) == IF draw = 0 THEN low ELSE high

\* text.replace("!", ".")
ReplaceBang(text) == [i \in 1..Len(text) |-> IF text[i] = "!" THEN "." ELSE text[i]]

\* The context keys the local backend reads, with the defaults of its .get calls
\* already applied: user_message '', st_current_mood 'neutral',
\* st_conversation_energy 0.5, session_metrics.boredom_triggers 0,
\* session_metrics.messages_on_current_topic 0
LocalContext(user_message, mood, energy, boredom_triggers, messages_on_current_topic) ==
  [ user_message |-> user_message, st_current_mood |-> mood, st_conversation_energy |-> energy,
    boredom_triggers |-> boredom_triggers, messages_on_current_topic |-> messages_on_current_topic ]

\* gpt2_local.py lines 118-201: draws holds the random choices (choice: an index,
\* engagement, quality: which end of the interval)
_generate_intelligent_mock(context_data, draws) ==
  LET mood          == context_data.st_current_mood
      energy        == context_data.st_conversation_energy
      boredom_level == context_data.boredom_triggers
      messages_count == context_data.messages_on_current_topic
      branch == IF boredom_level > 500 \/ messages_count > 6 THEN "initiative"
                ELSE IF mood = "bored" THEN "bored"
                ELSE IF mood = "engaged" \/ energy > 700 THEN "engaged"
                ELSE IF Contains(<< "?" >>, context_data.user_message) THEN "question"
                ELSE "basic"
      responses == CASE branch = "initiative" -> InitiativeResponses
                     [] branch = "bored"      -> BoredResponses
                     [] branch = "engaged"    -> EngagedResponses
                     [] branch = "question"   -> QuestionResponses
                     [] OTHER                 -> BasicResponses
      initiative_taken == branch \in {"initiative", "bored"}
      engagement == CASE branch = "initiative" -> Uniform(600, 900, draws.engagement)
                      [] branch = "bored"      -> Uniform(500, 700, draws.engagement)
                      [] branch = "engaged"    -> Uniform(700, 900, draws.engagement)
                      [] branch = "question"   -> Uniform(600, 800, draws.engagement)
                      [] OTHER                 -> Uniform(400, 700, draws.engagement)
      chosen == responses[((draws.choice - 1) % Len(responses)) + 1]
      response_text == IF energy < 300 THEN Lower(ReplaceBang(chosen))
                       ELSE IF energy > 800 /\ chosen[Len(chosen)] \notin {"!", "?"}
                            THEN chosen \o << "!" >>
                       ELSE chosen
  IN  DictReply([ response_text          |-> Str(response_text),
                  engagement_analysis    |-> Num(engagement),
                  boredom_detected       |-> Bool(boredom_level > 500),
                  topic_shift_suggestion |-> Str(IF boredom_level > 500 THEN <<"e","x","p","l","o","r","e"," ","u","s","e","r"," ","i","n","t","e","r","e","s","t","s">> ELSE << >>),
                  mood_assessment        |-> Str(mood),
                  initiative_taken       |-> Bool(initiative_taken),
                  learning_feedback      |->
                    Feedback(Num(IF initiative_taken THEN Uniform(600, 900, draws.quality)
                                 ELSE Uniform(500, 800, draws.quality)),
                             Num(engagement)) ])

\* raw_response.split('\n')[0]
FirstLine(text) ==
  LET breaks == {i \in 1..Len(text) : text[i] = "\n"}
  IN  IF breaks = {} THEN text
      ELSE SubSeq(text, 1, (CHOOSE i \in breaks : \A j \in breaks : i <= j) - 1)

\* gpt2_local.py lines 93-116: draws.engagement, draws.quality and
\* draws.satisfaction are the three random.uniform draws
_format_response(raw_response, context_data, draws) ==
  LET line             == FirstLine(raw_response)
      response_text    == IF Len(line) > 200 THEN SubSeq(line, 1, 200) \o Ellipsis ELSE line
      engagement       == context_data.st_conversation_energy
      boredom_detected == engagement < 300
  IN  DictReply([ response_text          |-> Str(IF Strip(response_text) # << >> THEN response_text
                                                 ELSE <<"I","'","m"," ","p","r","o","c","e","s","s","i","n","g"," ","y","o","u","r"," ","m","e","s","s","a","g","e",".",".",".">>),
                  engagement_analysis    |-> Num(Min2(1000, Max2(100, engagement
                                                   + Uniform(0 - 200, 200, draws.engagement)))),
                  boredom_detected       |-> Bool(boredom_detected),
                  topic_shift_suggestion |-> Str(IF ~boredom_detected THEN <<"e","x","p","l","o","r","e"," ","t","h","i","s"," ","f","u","r","t","h","e","r">>
                                                 ELSE <<"t","r","y"," ","s","o","m","e","t","h","i","n","g"," ","n","e","w">>),
                  mood_assessment        |-> Str(context_data.st_current_mood),
                  initiative_taken       |-> Bool(boredom_detected),
                  learning_feedback      |-> Feedback(Num(Uniform(400, 800, draws.quality)),
                                                      Num(Uniform(300, 700, draws.satisfaction))) ])

\* What the GPT-2 generation of lines 53-73 did: it failed, or it produced text
GenerationError == [kind |-> "error", text |-> << >>]

Generated(text) == [kind |-> "text", text |-> text]

\* gpt2_local.py lines 45-79: GPT2LocalProvider.generate_response(context_data) has
\* no raw_mode parameter, so a call that passes one raises TypeError before the
\* body runs.  use_mock is the attribute __init__ sets (lines 18-37).
LocalGenerateResponse(raw_mode, use_mock, generation, context_data, draws) ==
  IF raw_mode # "omitted"
  THEN CallRaised("local", raw_mode)
  ELSE IF use_mock \/ generation.kind = "error"
  THEN CallReturned("local", raw_mode, generation.kind = "error" /\ ~use_mock,
                    _generate_intelligent_mock(context_data, draws))
  ELSE CallReturned("local", raw_mode, FALSE,
                    _format_response(Strip(generation.text), context_data, draws))

\* The replies of the turns: well-formed objects, objects with missing or
\* ill-typed fields, plain text, and the provider's own failure (None)
TurnReplies ==
  { FullReply(Str(Text(3, 3)), Num(800), Bool(TRUE), Feedback(Num(900), Num(700))),
    FullReply(Str(Text(3, 3)), Num(300), Bool(TRUE), Feedback(Num(200), Num(300))),
    FullReply(Str(Text(LongWords, 0)), Num(1500), Bool(FALSE), Feedback(Num(500), Num(500))),
    FullReply(Str(Text(3, 3)), Num(800), Bool(TRUE), OtherFeedback),
    FullReply(Str(Text(3, 3)), Num(800), Bool(TRUE), Feedback(Str(<<"h","i","g","h">>), Num(700))),
    FullReply(Null, Num(800), Bool(TRUE), Feedback(Num(900), Num(700))),
    DictReply([EmptyData EXCEPT !.response_text = Str(Text(3, 3))]),
    TextReply(Text(3, 3)),
    NoneReply }

\* Step 1 on every message and step 7 on every reply of the turns (evaluated once)
ParsedOf == [m \in TurnMessages |-> parse_user_message(m)]

NormalizedOf == [reply \in TurnReplies |-> process_llm_response(reply)]

\* main.py lines 157-167: the raw comparison call of a turn, made on a provider
\* the factory creates for it
RawCall(provider, api) ==
  IF provider = "claude" THEN ClaudeGenerateResponse("true", api)
  ELSE LocalGenerateResponse("true", TRUE, GenerationError,
                             LocalContext(<< >>, <<"n","e","u","t","r","a","l">>, 500, 0, 0),
                             [choice |-> 1, engagement |-> 0, quality |-> 0, satisfaction |-> 0])

\* What surrounds a turn: whether the store takes the log row, what the raw
\* call does (the live backend answers, the live backend fails, the factory has
\* fallen back to the local backend), the random draw of the initiative analysis
TurnEnvironments ==
  { [log_ok |-> TRUE,  raw_call |-> RawCall("claude", ApiText(Text(2, 2))), spontaneous |-> FALSE],
    [log_ok |-> FALSE, raw_call |-> RawCall("claude", ApiText(Text(2, 2))), spontaneous |-> TRUE],
    [log_ok |-> TRUE,  raw_call |-> RawCall("claude", ApiError),            spontaneous |-> FALSE],
    [log_ok |-> TRUE,  raw_call |-> RawCall("local", ApiError),             spontaneous |-> TRUE] }

Turn ==
  /\ mood_updates < MaxTurns
  /\ \E m \in TurnMessages, reply \in TurnReplies, env \in TurnEnvironments :
        ProcessMessage(ParsedOf[m], reply, NormalizedOf[reply], env.log_ok, env.raw_call,
                       env.spontaneous)

NextTurn == Turn

\* The raw call failed: it raised, or the live backend returned its error string
RawFailed(call) ==
  call.raised \/ (call.reply.kind = "text" /\ call.reply.text = ClaudeRawError)

\* A raw call that succeeded
RawSucceeded == RawCall("claude", ApiText(Text(2, 2)))

\* C18 as claimed: when the raw comparison call of a turn fails (it raises or
\* returns a failure), the failure is recorded in the debug record, the raw reply
\* that is logged is the sentinel string, and the returned response_text and the
\* state of the mood and behaviour engines after the turn are those of the same
\* turn with a raw call that succeeded.
RawFailureRecordedAndIsolated ==
  [][ (last_op' = "turn" /\ RawFailed(raw_provider_call')) =>
        /\ current_raw_debug'.raw_call_success = FALSE
        /\ turn_outcome'.status = "returned" => log_entry'.raw_llm_response = Str(RawSentinel)
        /\ \E log_ok \in BOOLEAN, spontaneous \in BOOLEAN :
             \E same \in {TurnResult(last_parsed', processed_llm_response',
                                     final_processed_response', log_ok, RawSucceeded, spontaneous)} :
               /\ turn_outcome' = same.turn_outcome
               /\ current_mood' = same.current_mood
               /\ mood_history' = same.mood_history
               /\ engagement_trend' = same.engagement_trend
               /\ initiative_history' = same.initiative_history
               /\ behavioral_params' = same.behavioral_params
               /\ messages_on_topic' = same.messages_on_topic
               /\ behavior_context' = same.behavior_context
    ]_vars

SpecTurn == Init /\ [][NextTurn]_vars

\* C9 as claimed: for every user message and every reply of the backend, the
\* turn completes without an exception and returns the response_text of a valid
\* normalized response.
TurnNeverRaises ==
  last_op = "turn" =>
    /\ turn_outcome.status = "returned"
    /\ turn_outcome.response_text.t = "str"
    /\ Words(turn_outcome.response_text) <= 60

----
\* The behaviour engine under arbitrary outcomes.

MaxOutcomes == 8

EngagementResults == {600, 700}

LearnOutcome ==
  /\ outcome_calls < MaxOutcomes
  /\ \E t \in BOOLEAN, r \in EngagementResults : learn_from_outcome(t, r)

NextBehavior == LearnOutcome

SpecBehavior == Init /\ [][NextBehavior]_vars

\* C2: after any number of learn_from_outcome calls, starting from 0.35,
\* initiative_threshold is in [0.2, 0.6].
ThresholdInRange ==
  /\ behavioral_params.initiative_threshold >= 200
  /\ behavioral_params.initiative_threshold <= 600

\* The threshold has been driven to the cap or to the floor by learn_from_outcome.
ThresholdAtLimit ==
  /\ last_op = "learn_from_outcome"
  /\ behavioral_params.initiative_threshold \in {200, 600}

\* The positions of the last five records of a history
LastFive(history) == { i \in 1..Len(history) : i > Len(history) - 5 }

\* The history holds five records or more and the last five were initiatives
LastFiveTaken(history) ==
  Len(history) >= 5 /\ \A i \in LastFive(history) : history[i].initiative_taken

\* How many of the last five records have engagement_result > 0.6
SuccessesInLastFive(history) ==
  Cardinality({ i \in LastFive(history) : history[i].engagement_result > 600 })

\* C13 as claimed: on a fresh engine, after five calls with initiative_taken = true
\* of which exactly four have engagement_result > 0.6 the threshold is the initial
\* 0.35, and after five such calls that all succeed it is 0.05 above, 0.40.
ThresholdAfterFiveAsClaimed ==
  (outcome_calls = 5 /\ LastFiveTaken(initiative_history)) =>
    /\ SuccessesInLastFive(initiative_history) = 4 =>
          behavioral_params.initiative_threshold = InitialParams.initiative_threshold
    /\ SuccessesInLastFive(initiative_history) = 5 =>
          behavioral_params.initiative_threshold = InitialParams.initiative_threshold + 50

\* C13, amended: a call that leaves five initiatives as the last five records
\* keeps the threshold when exactly four of them have engagement_result > 0.6
\* and raises it by 0.05 (cap 0.6) when all five have; the fourth call adapts
\* too, so five successful initiatives on a fresh engine end 0.10 above the
\* initial value, and four successes out of five end at the initial value
\* exactly when the failure is among the first four calls (0.05 above it when
\* the failure is the fifth).
ThresholdAfterFive ==
  /\ [][ (outcome_calls' = outcome_calls + 1 /\ LastFiveTaken(initiative_history')) =>
           /\ SuccessesInLastFive(initiative_history') = 4 =>
                 behavioral_params'.initiative_threshold = behavioral_params.initiative_threshold
           /\ SuccessesInLastFive(initiative_history') = 5 =>
                 behavioral_params'.initiative_threshold =
                   Min2(600, behavioral_params.initiative_threshold + 50) ]_vars
  /\ []( (outcome_calls = 5 /\ LastFiveTaken(initiative_history)) =>
           /\ SuccessesInLastFive(initiative_history) = 5 =>
                 behavioral_params.initiative_threshold = InitialParams.initiative_threshold + 100
           /\ SuccessesInLastFive(initiative_history) = 4 =>
                 behavioral_params.initiative_threshold =
                   IF initiative_history[5].engagement_result > 600
                   THEN InitialParams.initiative_threshold
                   ELSE InitialParams.initiative_threshold + 50 )

\* Five successful initiatives have been recorded on a fresh engine.
FiveSuccessfulInitiatives ==
  /\ outcome_calls = 5 /\ LastFiveTaken(initiative_history)
  /\ SuccessesInLastFive(initiative_history) = 5
  /\ behavioral_params.initiative_threshold = InitialParams.initiative_threshold + 100

\* The threshold a rule gives: up by 0.05 (cap 0.6) when more than 0.8 of the
\* window succeeded, down by 0.05 (floor 0.2) when less than 0.3 did.
RuleThreshold(threshold, history, window) ==
  LET successes == { i \in window : history[i].engagement_result > 600 }
  IN  IF window = {} THEN threshold
      ELSE IF Cardinality(successes) * 10 > 8 * Cardinality(window) THEN Min2(600, threshold + 50)
      ELSE IF Cardinality(successes) * 10 < 3 * Cardinality(window) THEN Max2(200, threshold - 50)
      ELSE threshold

\* The initiatives among the last five records
TakenInLastFive(history) == { i \in LastFive(history) : history[i].initiative_taken }

\* C20 as claimed: in every call that adapts, the success rate is taken over the
\* five most recent records with initiative_taken = true, the other records being
\* skipped; the threshold goes up by 0.05 (cap 0.6) exactly when the rate is
\* > 0.8 and down by 0.05 (floor 0.2) exactly when it is < 0.3.
RateOverLastFiveInitiatives ==
  [][ (outcome_calls' = outcome_calls + 1 /\ Len(initiative_history') >= 4) =>
        LET history == initiative_history'
            taken   == { i \in 1..Len(history) : history[i].initiative_taken }
            \* the five most recent initiatives, other records skipped
            last5   == { i \in taken : Cardinality({ j \in taken : j > i }) < 5 }
        IN  behavioral_params'.initiative_threshold =
              RuleThreshold(behavioral_params.initiative_threshold, history, last5) ]_vars

\* C20, amended: in every call that adapts, the success rate is the fraction with
\* engagement_result > 0.6 among the initiatives found in the last five records
\* of any kind; the threshold goes up by 0.05 (cap 0.6) exactly when that rate
\* is > 0.8, down by 0.05 (floor 0.2) exactly when it is < 0.3, and a call with
\* fewer than four records or no initiative in the last five changes nothing.
RateOverLastFiveRecords ==
  [][ outcome_calls' = outcome_calls + 1 =>
        behavioral_params'.initiative_threshold =
          IF Len(initiative_history') >= 4
          THEN RuleThreshold(behavioral_params.initiative_threshold, initiative_history',
                             TakenInLastFive(initiative_history'))
          ELSE behavioral_params.initiative_threshold ]_vars

\* The seventh call adapted on a window that holds one initiative, a success,
\* while two failed initiatives lie before the window.
OlderInitiativesOutOfWindow ==
  /\ last_op = "learn_from_outcome" /\ outcome_calls = 7
  /\ Cardinality(TakenInLastFive(initiative_history)) = 1
  /\ Cardinality({ i \in 1..7 : initiative_history[i].initiative_taken }) = 3
  /\ initiative_history[7].initiative_taken /\ initiative_history[7].engagement_result > 600
  /\ ~ (initiative_history[1].engagement_result > 600)
  /\ ~ (initiative_history[2].engagement_result > 600)
  \* three cuts took the threshold to the floor, the seventh call raised it
  /\ behavioral_params.initiative_threshold = 250

----
\* Long runs: steady input streams, long enough for every buffer to overflow.

MaxLongUpdates == 52

MaxLongOutcomes == 22

LongUpdate ==
  /\ mood_updates < MaxLongUpdates
  /\ \E p \in ParsedMessages :
        /\ mood_updates > 0 => p = last_parsed
        /\ update_mood_from_input(p)

LongOutcome ==
  /\ outcome_calls < MaxLongOutcomes
  /\ \E t \in BOOLEAN, r \in EngagementResults :
        /\ outcome_calls > 0 =>
              /\ t = initiative_history[Len(initiative_history)].initiative_taken
              /\ r = initiative_history[Len(initiative_history)].engagement_result
        /\ learn_from_outcome(t, r)

NextHistory == LongUpdate \/ LongOutcome

SpecHistory == Init /\ [][NextHistory]_vars

\* The entries of a buffer are the most recent ones, in their original order,
\* the entry appended by the last call included.
MostRecent(history, clock) ==
  \A i \in 1..Len(history) : history[i].timestamp = clock - Len(history) + i

\* C3: the mood history holds at most 50 entries and the initiative history at
\* most 20 records after every call; a trim retains exactly the most recent 25
\* (mood) or 10 (initiative) entries in their original order, the entry just
\* appended included.
HistoryCaps ==
  /\ [](Len(mood_history) <= 50 /\ Len(initiative_history) <= 20)
  /\ [](MostRecent(mood_history, mood_updates) /\ MostRecent(initiative_history, outcome_calls))
  /\ [][Len(mood_history') <= Len(mood_history) => Len(mood_history') = 25]_mood_history
  /\ [][Len(initiative_history') <= Len(initiative_history)
           => Len(initiative_history') = 10]_initiative_history

\* Both buffers have just been trimmed.
BothTrimmed ==
  /\ mood_updates = 51 /\ Len(mood_history) = 25
  /\ outcome_calls = 21 /\ Len(initiative_history) = 10

----
\* The providers on their own: the factory is called on a config, and
\* generate_response is called on the provider it returned.

ProviderTypes == {"claude", "local", "openai"}

RawModes == {"omitted", "false", "true"}

\* What the API of the live backend does in a call
ApiOutcomes ==
  { ApiError,
    ApiText(Text(2, 2)),
    ApiText(<< " ", "\"", "o", "k", "\"", " " >>),
    ApiJson(ReprText, EmptyData),
    ApiJson(ReprText, [EmptyData EXCEPT !.response_text = Str(Text(3, 3))]) }

\* What the GPT-2 generation of the local backend does in a call
Generations == { GenerationError, Generated(Text(2, 2)), Generated(<< " ", "\n", "a" >>) }

\* The contexts the local backend is called on
LocalContexts ==
  { LocalContext(<<"h","o","w"," ","a","r","e"," ","y","o","u","?">>, <<"n","e","u","t","r","a","l">>, 500, 0, 0),
    LocalContext(<<"o","k">>, <<"n","e","u","t","r","a","l">>, 500, 0, 0),
    LocalContext(<<"o","k">>, <<"n","e","u","t","r","a","l">>, 900, 0, 0),
    LocalContext(<<"o","k">>, <<"b","o","r","e","d">>, 200, 0, 0),
    LocalContext(<<"o","k">>, <<"n","e","u","t","r","a","l">>, 500, 600, 7) }

\* The random draws of one call of the local backend
Draws ==
  [choice : 1..2, engagement : {0, 1}, quality : {0, 1}, satisfaction : {0}]

\* provider_factory.py lines 6-30
CreateProvider ==
  /\ \E provider_type \in ProviderTypes, claude_ready \in BOOLEAN :
        llm_provider' = create_provider(provider_type, claude_ready)
  /\ last_op' = "create_provider"
  /\ UNCHANGED << moodVars, behaviorVars, normalizerVars, chat_log, llm_context, log_entry,
                  raw_provider_call, current_raw_debug, current_state, turn_outcome, returned, engagement_ulps,
                  memoryVars,
                  provider_call >>

\* generate_response(context_data, raw_mode) on the provider of the factory
GenerateResponse ==
  /\ \E raw_mode \in RawModes, api \in ApiOutcomes, use_mock \in BOOLEAN,
        generation \in Generations, context_data \in LocalContexts, draws \in Draws :
        provider_call' = IF llm_provider = "claude" THEN ClaudeGenerateResponse(raw_mode, api)
                         ELSE LocalGenerateResponse(raw_mode, use_mock, generation,
                                                    context_data, draws)
  /\ last_op' = "generate_response"
  /\ UNCHANGED << moodVars, behaviorVars, normalizerVars, chat_log, llm_context, log_entry,
                  raw_provider_call, current_raw_debug, current_state, turn_outcome, returned, engagement_ulps,
                  memoryVars,
                  llm_provider >>

NextProvider == CreateProvider \/ GenerateResponse

SpecProvider == Init /\ [][NextProvider]_vars

\* C17 as claimed: on every provider the factory returns, generate_response
\* (context, raw_mode) returns without raising, a reply object when raw_mode is
\* false and a plain string when raw_mode is true; on an internal failure the
\* reply is the fallback object or, in raw mode, the fixed sentinel string.
GenerateResponseNeverRaises ==
  last_op = "generate_response" =>
    /\ ~provider_call.raised
    /\ provider_call.raw_mode = "true" => provider_call.reply.kind = "text"
    /\ provider_call.raw_mode # "true" => provider_call.reply.kind = "dict"
    /\ (provider_call.internal_failure /\ provider_call.provider = "claude") =>
          provider_call.reply = (IF provider_call.raw_mode = "true" THEN TextReply(ClaudeRawError)
                                 ELSE _fallback_response)

----
\* The memory manager on its own: it is built on whatever the disk holds, the
\* session state is loaded, changed and saved, and the file can be removed or
\* damaged between two calls.

Conditions == {"ok", "missing", "unreadable", "no_DNA", "no_Current_State", "no_Experience"}

\* A DNA sheet and a state sheet an earlier session has left
TunedDna == [DefaultDna EXCEPT !.dna_curiosity_level = 900]

SavedState == [InitialState EXCEPT !.st_current_mood = "excited", !.st_messages_count = 3]

\* The workbooks the disk can hold when the memory manager is built
Workbooks ==
  { Workbook(condition, dna, state, EmptyDict) :
      condition \in Conditions, dna \in {DefaultDna, TunedDna}, state \in {InitialState, SavedState} }

\* memory.py lines 9-14: MemoryManager(excel_file)
InitMemory ==
  /\ InitCore
  /\ processed_llm_response = NoneReply
  /\ final_processed_response = Returned(EmptyData)
  /\ store \in { _initialize_excel_structure(workbook) : workbook \in Workbooks }
  /\ dna_parameters = EmptyDict
  /\ current_state = EmptyDict
  /\ experiential_memory = EmptyDict

memoryFrame ==
  << moodVars, behaviorVars, normalizerVars, chat_log, llm_context, log_entry, raw_provider_call,
     current_raw_debug, turn_outcome, returned, engagement_ulps, providerVars >>

\* memory.py lines 53-79
load_session_state ==
  /\ \E outcome \in {LoadOutcome(store, dna_parameters, current_state, experiential_memory)} :
        /\ dna_parameters' = outcome.dna_parameters
        /\ current_state' = outcome.current_state
        /\ experiential_memory' = outcome.experiential_memory
        /\ store' = outcome.store
  /\ last_op' = "load_session_state"
  /\ UNCHANGED memoryFrame

\* memory.py lines 81-113
save_session_state ==
  /\ store' = SaveOutcome(store, current_state, experiential_memory)
  /\ last_op' = "save_session_state"
  /\ UNCHANGED << memoryFrame, dna_parameters, current_state, experiential_memory >>

\* memory.py lines 121-122: update_current_state(key, value), here on the mood
update_current_state(key, value) ==
  /\ current_state' = [k \in DOMAIN current_state \cup {key} |->
                         IF k = key THEN value ELSE current_state[k]]
  /\ last_op' = "update_current_state"
  /\ UNCHANGED << memoryFrame, store, dna_parameters, experiential_memory >>

UpdateCurrentState == update_current_state("st_current_mood", "bored")

MaxExperienceUpdates == 1

\* memory.py lines 169-195
update_experiential_learning(engagement_score, initiative_taken) ==
  /\ experiential_memory' = ExperienceAfter(experiential_memory, engagement_score, initiative_taken)
  /\ last_op' = "update_experiential_learning"
  /\ UNCHANGED << memoryFrame, store, dna_parameters, current_state >>

UpdateExperience ==
  /\ IF "engagement.score" \in DOMAIN experiential_memory
     THEN experiential_memory["engagement.score"].confidence < 100 + 100 * MaxExperienceUpdates
     ELSE TRUE
  /\ update_experiential_learning(900, TRUE)

\* Between two calls the file is removed, replaced by something that is no
\* workbook, or loses a sheet
Damage ==
  /\ \E condition \in Conditions \ {"ok"} : store' = [store EXCEPT !.condition = condition]
  /\ last_op' = "damage"
  /\ UNCHANGED << memoryFrame, dna_parameters, current_state, experiential_memory >>

NextMemory ==
  load_session_state \/ save_session_state \/ UpdateCurrentState \/ UpdateExperience \/ Damage

SpecMemory == InitMemory /\ [][NextMemory]_vars

\* C19 as claimed: whenever load_session_state fails to read the store (missing
\* file, missing sheet, unreadable content), on return the store is the fresh
\* default structure and dna_parameters and current_state hold the defaults.
LoadFailureRestoresDefaults ==
  [][ ( /\ last_op' = "load_session_state"
        /\ LoadOutcome(store, dna_parameters, current_state, experiential_memory).failed ) =>
          /\ store' = FreshStore
          /\ dna_parameters' = DefaultDna
          /\ current_state' = InitialState
    ]_vars

----
\* The behaviour engine's topic tracking: messages are counted by
\* analyze_conversation_state and topics are changed by update_topic_tracking.

MaxTopicMessages == 4

MaxTopicChanges == 2

\* The names update_topic_tracking is called with: none given, the empty
\* string, two names
TopicNames == {NoTopic, "", "music", "work"}

\* Line 322: the name made from the clock when none is given
ClockNames == {"topic_101500", "topic_235959"}

\* Seconds on the clock since the topic started
TopicSeconds == {0, 30, 180}

topicFrame ==
  << moodVars, normalizerVars, turnVars, initiative_history, behavioral_params, outcome_calls >>

\* Lines 307-324
update_topic_tracking(new_topic_detected, topic_name, clock_name, seconds) ==
  /\ IF new_topic_detected
     THEN /\ topic_performance' =
                IF current_topic \notin {NoTopic, ""}
                THEN [t \in DOMAIN topic_performance \cup {current_topic} |->
                        IF t = current_topic THEN TopicPerformance(messages_on_topic, seconds)
                        ELSE topic_performance[t]]
                ELSE topic_performance
          \* topic_name or f"topic_{...}"
          /\ current_topic' = IF topic_name \in {NoTopic, ""} THEN clock_name ELSE topic_name
          /\ messages_on_topic' = 0
          /\ topic_changes' = topic_changes + 1
     ELSE UNCHANGED << topic_performance, current_topic, messages_on_topic, topic_changes >>
  /\ last_op' = "update_topic_tracking"
  /\ UNCHANGED << topicFrame, analysisVars >>

UpdateTopicTracking ==
  /\ topic_changes < MaxTopicChanges
  /\ \E new_topic_detected \in BOOLEAN, topic_name \in TopicNames, clock_name \in ClockNames,
        seconds \in TopicSeconds :
        update_topic_tracking(new_topic_detected, topic_name, clock_name, seconds)

\* Lines 36-69: analyze_conversation_state(recent_messages, emotional_state) called
\* on the engine
Analyze ==
  /\ messages_on_topic < MaxTopicMessages
  /\ \E recent_messages \in {<< >>, << [role |-> "user", content_words |-> 3] >>},
        spontaneous \in BOOLEAN :
        /\ behavior_context' = analyze_conversation_state(recent_messages, current_mood,
                                                          messages_on_topic, behavioral_params,
                                                          spontaneous)
        /\ initiative_analysis' = InitiativeAnalysis(recent_messages, current_mood, messages_on_topic,
                                                     behavioral_params, spontaneous)
        /\ messages_on_topic' = CountMessage(messages_on_topic, recent_messages)
  /\ last_op' = "analyze_conversation_state"
  /\ UNCHANGED << topicFrame, topicVars >>

NextTopic == UpdateTopicTracking \/ Analyze

SpecTopic == Init /\ [][NextTopic]_vars

\* C15 as claimed: in every reachable state of the behaviour engine one current
\* topic is tracked, never none; and every update_topic_tracking call with
\* new_topic_detected = true stores the performance record of the outgoing topic
\* (message count, duration, success_score = clamp01((messages - 2) / 5)), makes
\* the new topic current and resets the message counter to 0.
OneCurrentTopicAlways ==
  /\ [](current_topic # NoTopic)
  /\ [][ topic_changes' = topic_changes + 1 =>
           /\ current_topic \in DOMAIN topic_performance'
           /\ topic_performance'[current_topic].messages = messages_on_topic
           /\ topic_performance'[current_topic].success_score =
                 Max2(0, Min2(1000, (messages_on_topic - 2) * 200))
           /\ current_topic' # NoTopic
           /\ messages_on_topic' = 0
       ]_vars

----
\* A long conversation on one topic: the user keeps sending the same short
\* message, the backend keeps answering well, and update_topic_tracking is never
\* called (main.py has no call of it).  The store is fresh or holds the chat log
\* of an earlier session.

MaxConversationTurns == 10

SteadyMessage == <<"o","k">>

SteadyReply == FullReply(Str(Text(3, 3)), Num(800), Bool(TRUE), Feedback(Num(900), Num(700)))

\* main.py lines 13-23 on a store whose chat log is empty or has a row
InitConversation ==
  /\ InitEngines
  /\ processed_llm_response = NoneReply
  /\ final_processed_response = Returned(EmptyData)

EarlierSession ==
  /\ mood_updates = 0
  /\ chat_log = << >>
  /\ chat_log' = << [role |-> "user", content_words |-> 2] >>
  /\ last_op' = "earlier_session"
  /\ UNCHANGED << moodVars, behaviorVars, normalizerVars, llm_context, log_entry, raw_provider_call,
                  current_raw_debug, current_state, turn_outcome, returned, engagement_ulps, memoryVars,
                  providerVars >>

ConversationTurn ==
  /\ mood_updates < MaxConversationTurns
  /\ \E log_ok \in BOOLEAN, spontaneous \in BOOLEAN :
        ProcessMessage(parse_user_message(SteadyMessage), SteadyReply,
                       process_llm_response(SteadyReply), log_ok, RawSucceeded, spontaneous)

NextConversation == EarlierSession \/ ConversationTurn

SpecConversation == InitConversation /\ [][NextConversation]_vars

\* The initiative analysis of the last turn fired this trigger
Triggered(trigger) ==
  \E i \in 1..Len(initiative_analysis.triggers) : initiative_analysis.triggers[i] = trigger

\* The chat log holds no row of an earlier session: every row is a steady message
StartedOnEmptyLog ==
  \A i \in 1..Len(chat_log) : chat_log[i].content_words = WordCount(SteadyMessage)

\* C14 as claimed: with topic_change_frequency = 4 and no topic change, on the
\* 7th consecutive turn the persistence seen by analyze is 7, so the topic term
\* of boredom_level is 0.3 and the initiative score has TOPIC_FATIGUE, not
\* TOPIC_AGING.
SeventhTurnIsFatigued ==
  (last_op = "turn" /\ mood_updates = 7) =>
    /\ behavior_context.topic_persistence = 7
    /\ TopicPersistenceTerm(behavior_context.topic_persistence, behavioral_params) = 300
    /\ Triggered("TOPIC_FATIGUE")
    /\ ~Triggered("TOPIC_AGING")

\* C14, corrected: a turn adds 1 to the persistence only when the chat log
\* already holds a message, so a conversation that starts on an empty chat log
\* has persistence 0 on its first turn and at most 6 on its 7th.  On the 7th turn
\* a persistence of 7 gives the topic term 0.3 (boredom_level at least 0.3) and
\* TOPIC_FATIGUE without TOPIC_AGING; a persistence of 6 gives the term 0.2 and
\* TOPIC_AGING without TOPIC_FATIGUE.
SeventhTurnByPersistence ==
  /\ []( (last_op = "turn" /\ mood_updates = 7) =>
           /\ behavior_context.topic_persistence <= 7
           /\ StartedOnEmptyLog => behavior_context.topic_persistence <= 6
           /\ behavior_context.topic_persistence = 7 =>
                 /\ TopicPersistenceTerm(7, behavioral_params) = 300
                 /\ behavior_context.boredom_level.value >= 300
                 /\ Triggered("TOPIC_FATIGUE") /\ ~Triggered("TOPIC_AGING")
           /\ behavior_context.topic_persistence = 6 =>
                 /\ TopicPersistenceTerm(6, behavioral_params) = 200
                 /\ behavior_context.boredom_level.value >= 200
                 /\ Triggered("TOPIC_AGING") /\ ~Triggered("TOPIC_FATIGUE") )
  /\ [][ last_op' = "turn" =>
           /\ behavior_context'.topic_persistence =
                 messages_on_topic + (IF chat_log = << >> THEN 0 ELSE 1)
       ]_vars

\* The 7th turn of a conversation that began on an empty chat log: persistence 6,
\* topic aging.
SeventhTurnOnFreshLog ==
  /\ last_op = "turn"
  /\ mood_updates = 7
  /\ StartedOnEmptyLog
  /\ Len(chat_log) = 7
  /\ behavior_context.topic_persistence = 6
  /\ Triggered("TOPIC_AGING")

----
\* C21: a learn_from_outcome call leaves initiative_threshold as it is when, its
\* record appended, the history holds fewer than 4 records or none of the five
\* most recent records has initiative_taken; in every other call the threshold
\* moves by at most 0.05; and the call changes no other behavioural parameter.
OutcomeFrame ==
  [][ last_op' = "learn_from_outcome" =>
        /\ (Len(initiative_history') < 4 \/ TakenInLastFive(initiative_history') = {}) =>
              behavioral_params'.initiative_threshold = behavioral_params.initiative_threshold
        /\ behavioral_params'.initiative_threshold - behavioral_params.initiative_threshold
              \in (0 - 50) .. 50
        /\ behavioral_params'.topic_change_frequency = behavioral_params.topic_change_frequency
        /\ behavioral_params'.curiosity_drive = behavioral_params.curiosity_drive
        /\ behavioral_params'.empathy_response = behavioral_params.empathy_response
        /\ behavioral_params'.boredom_tolerance = behavioral_params.boredom_tolerance
        /\ DOMAIN behavioral_params' = DOMAIN behavioral_params
    ]_vars

\* Three initiatives have failed and the threshold is still the initial one;
\* a fourth record has arrived and the threshold has moved.
ThreeFailuresNoAdaptation ==
  /\ last_op = "learn_from_outcome"
  /\ Len(initiative_history) = 3
  /\ \A i \in 1..3 : initiative_history[i].initiative_taken /\ ~initiative_history[i].success
  /\ behavioral_params.initiative_threshold = InitialParams.initiative_threshold

----
\* engines/emotional.py lines 213-235 : detect_conversation_stagnation

\* Lines 213-235.  The mean of three samples is compared with 0.4 on their sum
\* (sum / 3 < 0.4 is sum < 1.2 away from the rounding boundary, which the
\* sample values below keep clear of).
detect_conversation_stagnation(trend, mood) ==
  IF Len(trend) < 3 THEN FALSE
  ELSE LET recent_scores == [i \in 1..3 |-> LastN(trend, 3)[i].engagement]
       IN  IF recent_scores[1] + recent_scores[2] + recent_scores[3] < 1200 THEN TRUE
           ELSE IF recent_scores[3] < recent_scores[2] /\ recent_scores[2] < recent_scores[1] THEN TRUE
           ELSE IF mood.engagement_level < 300 THEN TRUE
           ELSE FALSE

\* Bounds of the stagnation specification
MaxStagnationUpdates == 2

MaxStagnationSamples == 3

\* Sums of three of these are odd hundreds, never 1.2
StagnationScores == {300, 500, 700}

StagnationMessages ==
  { parse_user_message(<<"o","k">>), parse_user_message(<<"I"," ","t","h","i","n","k"," ","s","o">>) }

StagnationUpdate ==
  /\ mood_updates < MaxStagnationUpdates
  /\ \E p \in StagnationMessages : update_mood_from_input(p)

StagnationFeedback ==
  /\ Len(engagement_trend) < MaxStagnationSamples
  /\ \E e \in StagnationScores : learn_from_feedback(e, 500)

DetectStagnation ==
  /\ returned' = [ method |-> "detect_conversation_stagnation",
                   value  |-> detect_conversation_stagnation(engagement_trend, current_mood) ]
  /\ last_op' = "detect_conversation_stagnation"
  /\ UNCHANGED << moodVars, behaviorVars, normalizerVars, chat_log, llm_context, log_entry,
                  raw_provider_call, current_raw_debug, current_state, turn_outcome, memoryVars,
                  providerVars, engagement_ulps >>

NextStagnation == StagnationUpdate \/ StagnationFeedback \/ DetectStagnation

SpecStagnation == Init /\ [][NextStagnation]_vars

\* The three conditions of the stagnation test, on the stored samples and mood
RecentMeanLow ==
  /\ Len(engagement_trend) >= 3
  /\ LET recent == LastN(engagement_trend, 3)
     IN  recent[1].engagement + recent[2].engagement + recent[3].engagement < 1200

RecentDecreasing ==
  /\ Len(engagement_trend) >= 3
  /\ LET recent == LastN(engagement_trend, 3)
     IN  recent[3].engagement < recent[2].engagement /\ recent[2].engagement < recent[1].engagement

EngagementLow == current_mood.engagement_level < 300

\* C22: detect_conversation_stagnation returns true exactly when the mean of
\* the last 3 trend samples is below 0.4, or the last 3 samples are strictly
\* decreasing, or the current engagement_level is below 0.3, the last of these
\* for any number of recorded samples, fewer than 3 included.
StagnationIffAnyCondition ==
  last_op = "detect_conversation_stagnation" =>
    (returned.value <=> (RecentMeanLow \/ RecentDecreasing \/ EngagementLow))

\* What the method does: with fewer than 3 samples it returns false, whatever
\* the engagement level; with 3 or more it is the disjunction of the three tests.
StagnationNeedsThreeSamples ==
  last_op = "detect_conversation_stagnation" =>
    (returned.value <=>
       (Len(engagement_trend) >= 3 /\ (RecentMeanLow \/ RecentDecreasing \/ EngagementLow)))

\* A call with low engagement and fewer than 3 samples
LowEngagementFewSamples ==
  /\ last_op = "detect_conversation_stagnation"
  /\ Len(engagement_trend) < 3
  /\ EngagementLow
  /\ ~returned.value

----
\* engines/behavioral.py lines 213-248 : get_initiative_guidance

\* Lines 213-248.  context.get('initiative_triggers', []) reads a key of the
\* context it is given, and the empty list when the context has no such key.
get_initiative_guidance(context) ==
  LET initiative_type == context.initiative_type
      behavioral_mode == context.behavioral_mode
      triggers == IF "initiative_triggers" \in DOMAIN context THEN context.initiative_triggers
                  ELSE << >>
      InTriggers(t) == \E i \in 1..Len(triggers) : triggers[i] = t
      mode_tag  == IF behavioral_mode = "contemplative" THEN << "MOOD_CONTEMPLATIVE" >>
                   ELSE IF behavioral_mode = "low_energy" THEN << "MOOD_LOW_ENERGY" >>
                   ELSE IF behavioral_mode = "energetic" THEN << "MOOD_ENERGETIC" >>
                   ELSE IF behavioral_mode = "disengaged" THEN << "ENGAGEMENT_LOW" >>
                   ELSE << >>
      level_tag == IF initiative_type = "strong" THEN << "TAKE_INITIATIVE" >>
                   ELSE IF initiative_type = "moderate" THEN << "SHOW_INTEREST" >>
                   ELSE IF initiative_type = "gentle" THEN << "BE_CURIOUS" >>
                   ELSE << >>
  IN  mode_tag \o level_tag
      \o (IF InTriggers("TOPIC_FATIGUE") THEN << "TOPIC_STALE" >> ELSE << >>)
      \o (IF InTriggers("MODERATE_BOREDOM") THEN << "CONVERSATION_STAGNANT" >> ELSE << >>)
      \o (IF context.pattern_break_needed THEN << "BREAK_PATTERN" >> ELSE << >>)

\* Bounds of the guidance specification
MaxGuidanceUpdates == 2

MaxGuidanceMessages == 7

GuidanceMessages ==
  { parse_user_message(<<"o","k">>), parse_user_message(<<"I"," ","t","h","i","n","k"," ","s","o">>),
    parse_user_message(<<"W","O","W"," ","t","h","i","s"," ","i","s"," ","A","M","A","Z","I","N","G","!","!","!">>) }

\* The rows get_recent_messages() hands to analyze: none, one short user row,
\* and a window whose three assistant rows have like lengths
GuidanceWindows ==
  { << >>,
    << [role |-> "user", content_words |-> 1] >>,
    << [role |-> "user", content_words |-> 1], [role |-> "assistant", content_words |-> 3],
       [role |-> "assistant", content_words |-> 4], [role |-> "assistant", content_words |-> 3] >> }

GuidanceUpdate ==
  /\ mood_updates < MaxGuidanceUpdates
  /\ \E p \in GuidanceMessages : update_mood_from_input(p)

GuidanceAnalyze ==
  /\ messages_on_topic < MaxGuidanceMessages
  /\ \E recent_messages \in GuidanceWindows, spontaneous \in BOOLEAN :
        /\ behavior_context' = analyze_conversation_state(recent_messages, current_mood,
                                                          messages_on_topic, behavioral_params,
                                                          spontaneous)
        /\ initiative_analysis' = InitiativeAnalysis(recent_messages, current_mood, messages_on_topic,
                                                     behavioral_params, spontaneous)
        /\ messages_on_topic' = CountMessage(messages_on_topic, recent_messages)
  /\ last_op' = "analyze_conversation_state"
  /\ UNCHANGED << moodVars, initiative_history, behavioral_params, outcome_calls, topicVars,
                  normalizerVars, turnVars >>

\* get_initiative_guidance called on the snapshot the last analyze returned
GetInitiativeGuidance ==
  /\ behavior_context # EmptyDict
  /\ returned' = [ method |-> "get_initiative_guidance",
                   value  |-> get_initiative_guidance(behavior_context) ]
  /\ last_op' = "get_initiative_guidance"
  /\ UNCHANGED << moodVars, behaviorVars, normalizerVars, chat_log, llm_context, log_entry,
                  raw_provider_call, current_raw_debug, current_state, turn_outcome, memoryVars,
                  providerVars, engagement_ulps >>

NextGuidance == GuidanceUpdate \/ GuidanceAnalyze \/ GetInitiativeGuidance

SpecGuidance == Init /\ [][NextGuidance]_vars

\* The place of a tag in the fixed order of the guidance list
TagRank(tag) ==
  IF tag \in {"MOOD_CONTEMPLATIVE", "MOOD_LOW_ENERGY", "MOOD_ENERGETIC", "ENGAGEMENT_LOW"} THEN 1
  ELSE IF tag \in {"TAKE_INITIATIVE", "SHOW_INTEREST", "BE_CURIOUS"} THEN 2
  ELSE IF tag = "TOPIC_STALE" THEN 3
  ELSE IF tag = "CONVERSATION_STAGNANT" THEN 4
  ELSE IF tag = "BREAK_PATTERN" THEN 5
  ELSE 0

HasTag(tags, tag) == \E i \in 1..Len(tags) : tags[i] = tag

\* C23: get_initiative_guidance on the snapshot analyze returned gives a list
\* ordered as at most one mode tag, at most one initiative-level tag, then
\* TOPIC_STALE, CONVERSATION_STAGNANT, BREAK_PATTERN; TOPIC_STALE is in the list
\* exactly when the topic-fatigue trigger fired in that analysis,
\* CONVERSATION_STAGNANT exactly when the moderate-boredom trigger fired, and
\* BREAK_PATTERN exactly when pattern_break_needed.
GuidanceTagsFollowAnalysis ==
  last_op = "get_initiative_guidance" =>
    LET tags == returned.value
    IN  /\ \A i \in 1..Len(tags) : TagRank(tags[i]) > 0
        /\ \A i \in 1..Len(tags), j \in 1..Len(tags) : i < j => TagRank(tags[i]) < TagRank(tags[j])
        /\ HasTag(tags, "TOPIC_STALE") <=> Triggered("TOPIC_FATIGUE")
        /\ HasTag(tags, "CONVERSATION_STAGNANT") <=> Triggered("MODERATE_BOREDOM")
        /\ HasTag(tags, "BREAK_PATTERN") <=> behavior_context.pattern_break_needed

\* What the method does on a snapshot of analyze: the order holds and
\* BREAK_PATTERN follows pattern_break_needed, but the two trigger tags never
\* appear, the snapshot carrying no trigger list.
GuidanceWithoutTriggerTags ==
  last_op = "get_initiative_guidance" =>
    LET tags == returned.value
    IN  /\ \A i \in 1..Len(tags), j \in 1..Len(tags) : i < j => TagRank(tags[i]) < TagRank(tags[j])
        /\ ~HasTag(tags, "TOPIC_STALE")
        /\ ~HasTag(tags, "CONVERSATION_STAGNANT")
        /\ HasTag(tags, "BREAK_PATTERN") <=> behavior_context.pattern_break_needed

\* Guidance asked for after an analysis in which topic fatigue and moderate boredom fired
GuidanceAfterFatigueAndBoredom ==
  /\ last_op = "get_initiative_guidance"
  /\ Triggered("TOPIC_FATIGUE")
  /\ Triggered("MODERATE_BOREDOM")
  /\ behavior_context.pattern_break_needed

----
\* main.py lines 77-113 : the order of the steps of a turn

\* The order of the steps as the claim C24 has it
ClaimedStepOrder ==
  << "parse_user_message", "update_mood_from_input", "analyze_conversation_state",
     "_build_pure_data_context", "generate_response", "_get_raw_llm_response",
     "process_llm_response", "learn_from_feedback", "learn_from_outcome",
     "_log_pure_interaction" >>

\* The learn steps of the last turn took their scores from the normalized reply
\* of that turn
LearntFromNormalizedReply ==
  LET ai_response == final_processed_response.data
      engagement_score == GetOr(ai_response.engagement_analysis, Num(500))
      last_sample == engagement_trend[Len(engagement_trend)]
      last_record == initiative_history[Len(initiative_history)]
  IN  /\ engagement_trend # << >> /\ initiative_history # << >>
      /\ last_sample.engagement = engagement_score.n
      /\ last_record.engagement_result = engagement_score.n
      /\ last_record.initiative_taken = Truthy(GetOr(ai_response.initiative_taken, Bool(FALSE)))

----
\* engines/linguistic.py lines 10-59 : parse_user_message on composed messages

\* n words "x" separated by blanks
RepeatedWords(n) ==
  [i \in 1..(2 * n - 1) |-> IF i % 2 = 1 THEN "x" ELSE " "]

ParseOpeners ==
  { << >>, <<"I"," ","f","e","e","l"," ">>, <<"I"," ","t","h","i","n","k"," ">>, <<"I"," ","f","e","e","l"," ","m","y"," ">>,
    <<"W","O","W"," ","O","M","G"," ">> }

ParseBodyWords == {1, 3, 5, 9, 16}

ParseKeywords == { << >>, <<" ","h","a","p","p","y">>, <<" ","s","a","d"," ","l","o","v","e">> }

ParseEndings == { << >>, <<"?">>, <<"!">>, <<"!","!","!">> }

\* The messages handed to the feature extractor
ComposedMessages ==
  { opener \o RepeatedWords(n) \o keyword \o ending :
      opener \in ParseOpeners, n \in ParseBodyWords, keyword \in ParseKeywords,
      ending \in ParseEndings }

\* The parsed form of every composed message (evaluated once)
ComposedParsed == { parse_user_message(message) : message \in ComposedMessages }

\* parse_user_message(message) called on the extractor
ParseMessage ==
  /\ \E parsed \in ComposedParsed : last_parsed' = parsed
  /\ last_op' = "parse_user_message"
  /\ UNCHANGED << current_mood, mood_history, engagement_trend, mood_updates, behaviorVars,
                  normalizerVars, turnVars >>

NextParse == ParseMessage

SpecParse == Init /\ [][NextParse]_vars

\* The number of personal-sharing keywords that occur in the parsed message
PersonalKeywordsIn(parsed) ==
  Cardinality({ i \in 1..Len(personal_indicators) :
                  Contains(personal_indicators[i], Lower(parsed.raw_message)) })

\* The score of the claim C25 before the clamp, the personal part being given
ScoreWithPersonalPart(parsed, personal_part) ==
  500
  + (IF parsed.word_count > 15 THEN 250
     ELSE IF parsed.word_count > 8 THEN 150
     ELSE IF parsed.word_count < 2 THEN 0 - 400
     ELSE IF parsed.word_count < 4 THEN 0 - 200
     ELSE 0)
  + (IF parsed.has_question THEN 200 ELSE 0)
  + (IF parsed.exclamation_count > 0 THEN 150 ELSE 0)
  + (IF parsed.exclamation_count > 2 THEN 100 ELSE 0)
  + (IF parsed.shouting THEN 150 ELSE 0)
  + (IF AnyContained(emotional_indicators, Lower(parsed.raw_message)) THEN 100 ELSE 0)
  + personal_part

\* C25: for every message estimated_engagement is the clamp to [0.1, 0.9] of
\* 0.5 + the word-count band + 0.2 for a question + 0.15 for any exclamation
\* + 0.1 more for more than 2 exclamations + 0.15 for an uppercase ratio above
\* 0.3 + 0.1 if any emotional keyword occurs + 0.05 if any personal-sharing
\* keyword occurs, the emotional and the personal part each added at most once.
EngagementScoreAsClaimed ==
  last_op = "parse_user_message" =>
    last_parsed.estimated_engagement =
      Clamp(100, 900, ScoreWithPersonalPart(last_parsed,
                        IF PersonalKeywordsIn(last_parsed) > 0 THEN 50 ELSE 0))

\* What the extractor does: 0.05 is added for every personal-sharing keyword
\* that occurs, the other parts being as in C25.
EngagementScorePerPersonalKeyword ==
  last_op = "parse_user_message" =>
    last_parsed.estimated_engagement =
      Clamp(100, 900, ScoreWithPersonalPart(last_parsed, 50 * PersonalKeywordsIn(last_parsed)))

\* A parsed message with two personal-sharing keywords and a score inside the clamp
TwoPersonalKeywords ==
  /\ last_op = "parse_user_message"
  /\ PersonalKeywordsIn(last_parsed) = 2
  /\ last_parsed.estimated_engagement = 600

----
\* engines/emotional.py lines 53-60 : the energy step of an update

\* The energy the energy step of the update starts from: that of the trigger
\* shift when a trigger fired, the stored one otherwise
EnergyBeforeStep(mood, parsed_message) ==
  LET emotional_impact == TriggerOf[parsed_message.raw_message]
  IN  IF emotional_impact.trigger_detected
      THEN _apply_emotional_shift(mood, emotional_impact).energy_level
      ELSE mood.energy_level

\* The energy step as the claim C26 has it: every move clamped into [0.1, 0.9]
ClaimedEnergyStep(e, estimated_engagement) ==
  IF estimated_engagement > 700 THEN Clamp(100, 900, e + 150)
  ELSE IF estimated_engagement < 300 THEN Clamp(100, 900, e - 150)
  ELSE IF estimated_engagement < 400 THEN Clamp(100, 900, e - 50)
  ELSE e

\* C26: in every update the energy step maps the energy e it starts from to
\* clamp[0.1, 0.9](e + 0.15) when estimated_engagement > 0.7, to
\* clamp[0.1, 0.9](e - 0.15) when it is below 0.3, to clamp[0.1, 0.9](e - 0.05)
\* when it is in [0.3, 0.4), and to e otherwise; so the step never raises energy
\* when estimated_engagement <= 0.7.
EnergyStepAsClaimed ==
  [][ last_op' = "update" =>
        LET e   == EnergyBeforeStep(current_mood, last_parsed')
            est == last_parsed'.estimated_engagement
        IN  /\ current_mood'.energy_level = ClaimedEnergyStep(e, est)
            /\ est <= 700 => current_mood'.energy_level <= e
    ]_vars

\* What the step does: the -0.05 move has the floor 0.2, the other two moves
\* are clamped as in C26.
EnergyStepWithMildFloor ==
  [][ last_op' = "update" =>
        LET e   == EnergyBeforeStep(current_mood, last_parsed')
            est == last_parsed'.estimated_engagement
        IN  current_mood'.energy_level =
              IF est > 700 THEN Min2(900, e + 150)
              ELSE IF est < 300 THEN Max2(100, e - 150)
              ELSE IF est < 400 THEN Max2(200, e - 50)
              ELSE e
    ]_vars

----
\* engines/emotional.py lines 186-211 : learn_from_feedback over a long session

\* Bounds of the feedback specification
MaxFeedbackUpdates == 2

MaxVariedFeedbacks == 2

FeedbackMessages ==
  { parse_user_message(<<"m","e","h">>),
    parse_user_message(<<"W","O","W"," ","t","h","i","s"," ","i","s"," ","A","M","A","Z","I","N","G","!","!","!">>) }

FeedbackUpdate ==
  /\ mood_updates < MaxFeedbackUpdates
  /\ \E p \in FeedbackMessages : update_mood_from_input(p)

\* learn_from_feedback early in the session, with every kind of feedback
VariedFeedback ==
  /\ Len(engagement_trend) < MaxVariedFeedbacks
  /\ \E e \in EngagementScores, f \in FeedbackScores : learn_from_feedback(e, f)

\* learn_from_feedback later in the session: middling feedback while the
\* buffer fills, every kind of feedback on the call that finds it full
LongFeedback ==
  /\ Len(engagement_trend) >= MaxVariedFeedbacks
  /\ \E f \in (IF Len(engagement_trend) = 20 THEN FeedbackScores ELSE {500}) :
        learn_from_feedback(500, f)

NextFeedback == FeedbackUpdate \/ VariedFeedback \/ LongFeedback

SpecFeedback == Init /\ [][NextFeedback]_vars

\* C27: learn_from_feedback changes only energy_level and the engagement-trend
\* buffer.  Feedback above 0.8 sets energy to min(0.9, energy + 0.05); feedback
\* below 0.3 multiplies energy by 0.8 when energy > 0.7 or sets it to
\* min(0.6, energy * 1.2) when energy < 0.3; otherwise energy is unchanged.
\* engagement_level, curiosity_level and primary_emotion are never changed by
\* it, and the trend buffer never holds more than 20 samples.
FeedbackFrame ==
  /\ [](Len(engagement_trend) <= 20)
  /\ [][ last_op' = "learn_from_feedback" =>
           LET energy   == current_mood.energy_level
               feedback == engagement_trend'[Len(engagement_trend')].feedback
           IN  /\ feedback > 800 => current_mood'.energy_level = Min2(900, energy + 50)
               /\ (feedback < 300 /\ energy > 700) =>
                     current_mood'.energy_level = (energy * 8) \div 10
               /\ (feedback < 300 /\ energy < 300) =>
                     current_mood'.energy_level = Min2(600, (energy * 12) \div 10)
               /\ (feedback >= 300 /\ feedback <= 800) => current_mood'.energy_level = energy
               /\ (feedback < 300 /\ energy >= 300 /\ energy <= 700) =>
                     current_mood'.energy_level = energy
               /\ current_mood'.engagement_level = current_mood.engagement_level
               /\ current_mood'.curiosity_level = current_mood.curiosity_level
               /\ current_mood'.primary_emotion = current_mood.primary_emotion
               /\ DOMAIN current_mood' = DOMAIN current_mood
               /\ UNCHANGED << mood_history, mood_updates, last_parsed, behaviorVars,
                               normalizerVars, turnVars >>
     ]_vars

\* A feedback call that trimmed the full buffer to its last 10 samples and
\* damped a high energy
TrendTrimmedAndEnergyDamped ==
  /\ last_op = "learn_from_feedback"
  /\ Len(engagement_trend) = 10
  /\ engagement_trend[10].feedback = 200
  /\ current_mood.energy_level = 720

----
\* engines/emotional.py lines 41-51 : the no-trigger blend in double arithmetic

\* Lines 43-48 evaluated in IEEE-754 doubles.  A stored engagement is written
\* as its decimal value in thousandths and the number of units in the last
\* place by which the double lies above the double of that decimal.  A row
\* << current, ulps of current, estimated, ulps of the result >> gives
\* max(0.1, min(0.9, current + ((0.5 * current + 0.5 * estimated) - current) * 2.0)),
\* whose decimal value is that of estimated; the rows cover every stored value
\* the messages below lead to.
BlendRounding ==
  { <<100, 0, 100, 0>>, <<100, 0, 550, 0>>, <<100, 0, 650, 0>>, <<100, 0, 700, -1>>,
    <<100, 2, 100, 0>>, <<100, 2, 550, 0>>, <<100, 2, 650, -1>>, <<100, 2, 700, 0>>,
    <<200, 0, 100, 2>>, <<200, 0, 550, 0>>, <<200, 0, 650, 1>>, <<200, 0, 700, 0>>,
    <<500, 0, 100, 0>>, <<500, 0, 550, 0>>, <<500, 0, 650, -1>>, <<500, 0, 700, 0>>,
    <<550, -1, 100, 0>>, <<550, -1, 550, 1>>, <<550, -1, 650, 0>>, <<550, -1, 700, 1>>,
    <<550, 0, 100, 0>>, <<550, 0, 550, 0>>, <<550, 0, 650, 1>>, <<550, 0, 700, 0>>,
    <<550, 1, 100, 0>>, <<550, 1, 550, -1>>, <<550, 1, 650, 0>>, <<550, 1, 700, -1>>,
    <<650, -1, 100, 0>>, <<650, -1, 550, 0>>, <<650, -1, 650, -1>>, <<650, -1, 700, 0>>,
    <<650, 0, 100, 0>>, <<650, 0, 550, 1>>, <<650, 0, 650, 0>>, <<650, 0, 700, 1>>,
    <<650, 1, 100, 0>>, <<650, 1, 550, 0>>, <<650, 1, 650, 1>>, <<650, 1, 700, 0>>,
    <<700, -1, 100, 0>>, <<700, -1, 550, 1>>, <<700, -1, 650, 0>>, <<700, -1, 700, 1>>,
    <<700, 0, 100, 0>>, <<700, 0, 550, 0>>, <<700, 0, 650, 1>>, <<700, 0, 700, 0>>,
    <<700, 1, 100, 0>>, <<700, 1, 550, -1>>, <<700, 1, 650, 0>>, <<700, 1, 700, -1>> }

\* The ulps of the engagement the no-trigger branch stores
BlendUlps(current_engagement, current_ulps, message_engagement) ==
  Only({ row[4] : row \in { r \in BlendRounding : /\ r[1] = current_engagement
                                                   /\ r[2] = current_ulps
                                                   /\ r[3] = message_engagement } })

\* Bound of the blend specification
MaxBlendUpdates == 4

\* Messages whose estimated_engagement is the double of 0.1, 0.55, 0.7, 0.65, and
\* one that fires the bored trigger (engagement_level = max(0.1, 0.2), line 139)
BlendMessages ==
  { <<"o","k">>,
    <<"s","o","u","n","d","s"," ","g","o","o","d"," ","t","o"," ","m","e">>,
    <<"h","o","w"," ","a","r","e"," ","y","o","u"," ","t","o","d","a","y","?">>,
    <<"o","n","e"," ","t","w","o"," ","t","h","r","e","e"," ","f","o","u","r"," ","f","i","v","e"," ","s","i","x"," ","s","e","v","e","n"," ","e","i","g","h","t"," ","n","i","n","e">>,
    <<"m","e","h">> }

BlendParsed == { parse_user_message(m) : m \in BlendMessages }

\* update_mood_from_input with the rounding of the stored engagement followed
BlendUpdate ==
  /\ mood_updates < MaxBlendUpdates
  /\ \E p \in BlendParsed :
        /\ current_mood' = MoodAfterUpdate(current_mood, p)
        /\ engagement_ulps' = IF TriggerOf[p.raw_message].trigger_detected THEN 0
                              ELSE BlendUlps(current_mood.engagement_level, engagement_ulps,
                                             p.estimated_engagement)
        /\ mood_history' = TrimMoodHistory(Append(mood_history, MoodHistoryEntry(mood_updates + 1)))
        /\ mood_updates' = mood_updates + 1
        /\ last_parsed' = p
  /\ last_op' = "update"
  /\ UNCHANGED << engagement_trend, behaviorVars, normalizerVars, chat_log, llm_context, log_entry,
                  raw_provider_call, current_raw_debug, current_state, turn_outcome, returned,
                  memoryVars, providerVars >>

NextBlend == BlendUpdate

SpecBlend == Init /\ [][NextBlend]_vars

\* C28: on every update where no trigger fires the new engagement_level is
\* clamp[0.1, 0.9](current + 2.0 * ((0.5 * current + 0.5 * estimated) - current)),
\* and this is the message's estimated_engagement whatever the engagement_level
\* was before, so that it does not depend on any earlier turn.
BlendEqualsEstimate ==
  [][ (last_op' = "update" /\ ~TriggerOf[last_parsed'.raw_message].trigger_detected) =>
        /\ current_mood'.engagement_level =
             BlendEngagement(current_mood.engagement_level, last_parsed'.estimated_engagement)
        /\ current_mood'.engagement_level = last_parsed'.estimated_engagement
        /\ engagement_ulps' = 0
    ]_vars

\* What the blend stores: the estimate to within two units in the last place
BlendWithinRounding ==
  [][ (last_op' = "update" /\ ~TriggerOf[last_parsed'.raw_message].trigger_detected) =>
        /\ current_mood'.engagement_level = last_parsed'.estimated_engagement
        /\ engagement_ulps' \in (0 - 2) .. 2
    ]_vars

\* The same message stored below its estimate after one history and on it after another
StoredBelowEstimate ==
  /\ last_op = "update"
  /\ last_parsed.estimated_engagement = 700
  /\ current_mood.engagement_level = 700
  /\ engagement_ulps = 0 - 1

----
\* engines/emotional.py lines 62-84 : the emotion after an update

EmotionVocabulary ==
  { "neutral", "interested", "engaged", "excited", "contemplative", "reflective", "thoughtful",
    "tired", "bored", "concerned", "empathetic", "helpful" }

\* The rows of the band table, in order: the emotion, the bound the engagement
\* must exceed, and the test on the energy
BandRows ==
  << [emotion |-> "excited",       engagement_above |-> 800, energy |-> "above", bound |-> 700],
     [emotion |-> "engaged",       engagement_above |-> 700, energy |-> "above", bound |-> 500],
     [emotion |-> "contemplative", engagement_above |-> 600, energy |-> "below", bound |-> 400],
     [emotion |-> "reflective",    engagement_above |-> 500, energy |-> "below", bound |-> 300],
     [emotion |-> "interested",    engagement_above |-> 400, energy |-> "any",   bound |-> 0],
     [emotion |-> "thoughtful",    engagement_above |-> 300, energy |-> "below", bound |-> 400],
     [emotion |-> "neutral",       engagement_above |-> 200, energy |-> "any",   bound |-> 0],
     [emotion |-> "tired",         engagement_above |-> 0,   energy |-> "below", bound |-> 300],
     [emotion |-> "bored",         engagement_above |-> 0,   energy |-> "any",   bound |-> 0] >>

RowMatches(row, engagement, energy) ==
  /\ engagement > row.engagement_above
  /\ \/ row.energy = "any"
     \/ row.energy = "above" /\ energy > row.bound
     \/ row.energy = "below" /\ energy < row.bound

\* The emotion of the first row that matches the mood
FirstMatchingRow(mood) ==
  LET matching == { i \in 1..Len(BandRows) :
                      RowMatches(BandRows[i], mood.engagement_level, mood.energy_level) }
  IN  BandRows[CHOOSE i \in matching : \A j \in matching : i <= j].emotion

----
\* behavioral.py lines 36-50, main.py lines 77-151 : the topic counter over a session

\* C30: over the turns of a session the topic message counter is never reset.
\* topic_persistence never falls from one turn to the next; it grows by exactly
\* 1 on a turn whose recent-message window is not empty and by 0 on a turn whose
\* window is empty.  The topic_freshness sent to the backend,
\* max(0, 1 - topic_persistence / 8), therefore never rises and is 0 on every
\* turn after topic_persistence has reached 8.
TopicCounterNeverReset ==
  [][ last_op' = "turn" =>
        /\ messages_on_topic' >= messages_on_topic
        /\ get_recent_messages(5) # << >> => messages_on_topic' = messages_on_topic + 1
        /\ get_recent_messages(5) = << >> => messages_on_topic' = messages_on_topic
        /\ behavior_context'.topic_persistence = messages_on_topic'
        /\ llm_context'.topic_persistence = messages_on_topic'
        /\ llm_context'.topic_freshness = Max2(0, 1000 - 125 * messages_on_topic')
        /\ llm_context # EmptyDict =>
              /\ llm_context'.topic_persistence >= llm_context.topic_persistence
              /\ llm_context'.topic_freshness <= llm_context.topic_freshness
        /\ messages_on_topic >= 8 => llm_context'.topic_freshness = 0
    ]_vars

\* The turn after the one in which the persistence reached 8: freshness still 0;
\* and the session had a turn on an empty window
NinthMessageOnTopic ==
  /\ last_op = "turn"
  /\ messages_on_topic = 9
  /\ llm_context.topic_persistence = 9
  /\ llm_context.topic_freshness = 0
  /\ mood_updates = 10

====
